---- MODULE Spec2Model ----
(***************************************************************************)
(* vtrace / atrace: time-to-first-frame and time-to-first-byte probes.     *)
(*                                                                         *)
(* The model follows the Go sources: cmd/vtrace/root.go (run, runCompare,  *)
(* measureTTFF, measureTTFFHTTP3, parseDelayRange, getDelay), the atrace   *)
(* command (run, measureTTFB), internal/probe (FetchWithTrace, buildTrace, *)
(* FetchPlaylist, GetFirstVariantURL, GetFirstSegmentURL, DownloadSegment) *)
(* and internal/decoder (DetectFirstFrame).                                *)
(*                                                                         *)
(* Durations of network phases are integers (one unit = 1ms); delays       *)
(* between samples are integers too (one unit = 1s).  Strings that the     *)
(* program parses are sequences of one-character strings.  A URL is the    *)
(* sequence <<origin, path component, ..., file>>.                         *)
(***************************************************************************)
EXTENDS Integers, Sequences, FiniteSets, TLC

\* ------------------------------------------------------------------------
\* Bounds of the model
\* ------------------------------------------------------------------------

\* largest value of the --samples flag that is explored
MaxSamples == 2

\* longest media playlist handed to GetFirstSegmentURL in the library runs
MaxSegments == 3

\* last reading of the wall clock in a traced fetch followed callback by callback
MaxClock == 3

\* longest duration sequence handed to the statistics functions
MaxValues == 5

\* largest duration in these sequences
MaxDuration == 6

\* ------------------------------------------------------------------------
\* Program constants
\* ------------------------------------------------------------------------

\* http.StatusOK, the only status FetchPlaylist and DownloadSegment accept
StatusOK == 200

\* default of the --delay flag, in seconds
DefaultDelay == 5

\* the --url flag: <<origin, directory, file>>
url == <<"https://origin", "live", "master.m3u8">>

\* ------------------------------------------------------------------------
\* Strings as character sequences: strings.Split and time.ParseDuration
\* ------------------------------------------------------------------------

Digits == {"0", "1", "2", "3", "4", "5", "6", "7", "8", "9"}

DigitOf(c) ==
    CASE c = "0" -> 0 [] c = "1" -> 1 [] c = "2" -> 2 [] c = "3" -> 3
      [] c = "4" -> 4 [] c = "5" -> 5 [] c = "6" -> 6 [] c = "7" -> 7
      [] c = "8" -> 8 [] c = "9" -> 9

\* strings.Split(s, sep) for a one-character separator
RECURSIVE Split(_, _)
Split(s, sep) ==
    IF \A k \in 1..Len(s) : s[k] # sep
    THEN <<s>>
    ELSE LET k == CHOOSE k \in 1..Len(s) :
                      s[k] = sep /\ \A j \in 1..(k - 1) : s[j] # sep
         IN  <<SubSeq(s, 1, k - 1)>> \o Split(SubSeq(s, k + 1, Len(s)), sep)

\* number of leading characters of s that are digits
LeadingDigits(s) ==
    Cardinality({k \in 1..Len(s) : \A j \in 1..k : s[j] \in Digits})

\* number of leading characters of s that belong to a unit name
LeadingUnit(s) ==
    Cardinality({k \in 1..Len(s) : \A j \in 1..k : s[j] \notin Digits /\ s[j] # "."})

\* ------------------------------------------------------------------------
\* Counts of any size: a natural number is the sequence of its limbs of
\* 15 bits, least significant first, without a zero as its last limb; zero
\* is <<>>.  <<0, 0, 5>> is 5 * 2^30.
\* ------------------------------------------------------------------------

Limb == 2^15

limbAt(a, k) == IF k <= Len(a) THEN a[k] ELSE 0
higher(a) == IF a = <<>> THEN <<>> ELSE Tail(a)

RECURSIVE trim(_)
trim(a) == IF a # <<>> /\ a[Len(a)] = 0 THEN trim(SubSeq(a, 1, Len(a) - 1)) ELSE a

\* the count n, and the integer of a count
RECURSIVE natOf(_)
natOf(n) == IF n = 0 THEN <<>> ELSE <<n % Limb>> \o natOf(n \div Limb)
RECURSIVE intOf(_)
intOf(a) == IF a = <<>> THEN 0 ELSE a[1] + Limb * intOf(Tail(a))

\* a + b + carry
RECURSIVE plus(_, _, _)
plus(a, b, carry) ==
    IF a = <<>> /\ b = <<>> THEN (IF carry = 0 THEN <<>> ELSE <<carry>>)
    ELSE LET sum == limbAt(a, 1) + limbAt(b, 1) + carry
         IN  <<sum % Limb>> \o plus(higher(a), higher(b), sum \div Limb)

\* a - b - borrow, for a >= b + borrow
RECURSIVE minusLimbs(_, _, _)
minusLimbs(a, b, borrow) ==
    IF a = <<>> THEN <<>>
    ELSE LET diff == a[1] - limbAt(b, 1) - borrow
         IN  IF diff < 0 THEN <<diff + Limb>> \o minusLimbs(Tail(a), higher(b), 1)
             ELSE <<diff>> \o minusLimbs(Tail(a), higher(b), 0)
minus(a, b) == trim(minusLimbs(a, b, 0))

\* a < b
less(a, b) ==
    \/ Len(a) < Len(b)
    \/ /\ Len(a) = Len(b)
       /\ \E k \in 1..Len(a) :
              a[k] < b[k] /\ \A j \in (k + 1)..Len(a) : a[j] = b[j]

odd(a) == a # <<>> /\ a[1] % 2 = 1

\* a * k + carry, for an integer k of 0..(2^16 - 1)
RECURSIVE timesSmallLimbs(_, _, _)
timesSmallLimbs(a, k, carry) ==
    IF a = <<>> THEN natOf(carry)
    ELSE LET product == a[1] * k + carry
         IN  <<product % Limb>> \o timesSmallLimbs(Tail(a), k, product \div Limb)
timesSmall(a, k) == trim(timesSmallLimbs(a, k, 0))
double(a) == timesSmall(a, 2)

\* a \div k and whether a division leaves a rest, for an integer k of
\* 1..2^16: the limbs from the last to the first, each with the rest of the
\* limbs above it
RECURSIVE overSmallLimbs(_, _, _)
overSmallLimbs(a, k, rest) ==
    IF a = <<>> THEN [q |-> <<>>, rest |-> rest # 0]
    ELSE LET top == rest * Limb + a[Len(a)]
             low == overSmallLimbs(SubSeq(a, 1, Len(a) - 1), k, top % k)
         IN  [q |-> low.q \o <<top \div k>>, rest |-> low.rest]
trimQuotient(qr) == [q |-> trim(qr.q), rest |-> qr.rest]
overSmall(a, k) == trimQuotient(overSmallLimbs(a, k, 0))

\* a * 2^k for any integer k, rounded down: whole limbs are put under a
\* or taken off it, and the bits that remain are a small factor or divisor
shift(a, k) ==
    IF a = <<>> \/ k = 0 THEN a
    ELSE IF k > 0 THEN [j \in 1..(k \div 15) |-> 0] \o timesSmall(a, 2^(k % 15))
    ELSE IF (-k) \div 15 >= Len(a) THEN <<>>
    ELSE overSmall(SubSeq(a, (-k) \div 15 + 1, Len(a)), 2^((-k) % 15)).q

\* the number of bits of a
bitLength(a) ==
    IF a = <<>> THEN 0
    ELSE 15 * (Len(a) - 1) + Cardinality({k \in 0..14 : 2^k <= a[Len(a)]})

\* a * b: a times each limb of b
RECURSIVE timesLimbs(_, _)
timesLimbs(a, b) ==
    IF b = <<>> THEN <<>>
    ELSE plus(timesSmall(a, b[1]), <<0>> \o timesLimbs(a, Tail(b)), 0)
times(a, b) == IF Len(b) = 1 THEN timesSmall(a, b[1]) ELSE trim(timesLimbs(a, b))
square(a) == times(a, a)

\* bits more binary places of the quotient r/d after the places in q, for
\* r < d, and the rest of the division.  The places are produced in two
\* parts, so that evaluating them nests to the logarithm of their number
\* only.
RECURSIVE quotient(_, _, _, _)
continued(first, d, bits) == quotient(first.rest, d, first.q, bits)
quotient(r, d, q, bits) ==
    IF r = <<>> \/ bits = 0 THEN [q |-> shift(q, bits), rest |-> r]
    ELSE IF bits = 1
    THEN IF less(double(r), d) THEN [q |-> double(q), rest |-> double(r)]
         ELSE [q |-> plus(double(q), <<>>, 1), rest |-> minus(double(r), d)]
    ELSE continued(quotient(r, d, q, bits \div 2), d, bits - bits \div 2)

\* a \div b and whether the division leaves a rest, for b > 0
inexact(qr) == [q |-> qr.q, rest |-> qr.rest # <<>>]
overLong(a, b, bits) == inexact(quotient(a, shift(b, bits), <<>>, bits))
over(a, b) ==
    IF Len(b) = 1 THEN overSmall(a, b[1])
    ELSE IF less(a, b) THEN [q |-> <<>>, rest |-> a # <<>>]
    ELSE overLong(a, b, bitLength(a) - bitLength(b) + 1)

\* the whole part of the square root of n: the bits of the root from the
\* highest down, `count` of them from the one worth 2^(bit - 1), in two
\* parts as in quotient
RECURSIVE rootBits(_, _, _, _)
rootBits(n, r, bit, count) ==
    IF count = 0 \/ square(r) = n THEN r
    ELSE IF count = 1
    THEN IF less(n, square(plus(r, shift(<<1>>, bit - 1), 0))) THEN r
         ELSE plus(r, shift(<<1>>, bit - 1), 0)
    ELSE rootBits(n, rootBits(n, r, bit, count \div 2),
                  bit - count \div 2, count - count \div 2)
rootOf(n, count) == rootBits(n, <<>>, count, count)
root(n) == rootOf(n, (bitLength(n) + 1) \div 2)

\* ------------------------------------------------------------------------
\* float64: a value that is not negative is man * 2^exp with man <= 2^53
\* and exp >= -1074, or +Inf.  Every operation gives the float64 nearest
\* to the exact result, a tie going to the even one.
\* ------------------------------------------------------------------------

Inf == [man |-> <<>>, exp |-> 0, inf |-> TRUE]
Zero == [man |-> <<>>, exp |-> 0, inf |-> FALSE]

\* q * 2^exp plus what was cut off q, rest out of 2 * half: one more in the
\* last place if the rest is over a half, or is a half and q is odd
nearest(q, rest, half, exp) ==
    [man |-> IF less(half, rest) \/ (rest = half /\ odd(q)) THEN plus(q, <<>>, 1) ELSE q,
     exp |-> exp]

\* man * 2^exp with the last `bits` bits of man rounded off; q is man
\* without them
cutTo(q, man, exp, bits) ==
    nearest(q, minus(man, shift(q, bits)), shift(<<1>>, bits - 1), exp + bits)
cut(man, exp, bits) == cutTo(shift(man, -bits), man, exp, bits)

\* 2^1024 and over is +Inf
finite(x) ==
    IF x.man = <<>> THEN Zero
    ELSE IF bitLength(x.man) + x.exp > 1024 THEN Inf
    ELSE [man |-> x.man, exp |-> x.exp, inf |-> FALSE]

\* the float64 nearest to man * 2^exp, for a man of `bits` bits: it keeps
\* 53 bits of man, and none under 2^-1074
rounded(man, exp, bits) ==
    IF bits <= 53 /\ exp >= -1074 THEN finite([man |-> man, exp |-> exp])
    ELSE IF bits - 53 > -1074 - exp THEN finite(cut(man, exp, bits - 53))
    ELSE finite(cut(man, exp, -1074 - exp))
Float64(man, exp) == rounded(man, exp, bitLength(man))

\* float64(n) of a count n
Float64Of(n) == Float64(n, 0)

\* x * y, x + y and the distance of x and y, for finite x and y
Float64Times(x, y) ==
    IF x.inf \/ y.inf THEN Inf ELSE Float64(times(x.man, y.man), x.exp + y.exp)
aligned(x, e) == shift(x.man, x.exp - e)
sumAt(x, y, e) == Float64(plus(aligned(x, e), aligned(y, e), 0), e)
Float64Plus(x, y) == sumAt(x, y, IF x.exp < y.exp THEN x.exp ELSE y.exp)
distanceAt(x, y, e) ==
    IF less(aligned(x, e), aligned(y, e))
    THEN Float64(minus(aligned(y, e), aligned(x, e)), e)
    ELSE Float64(minus(aligned(x, e), aligned(y, e)), e)
Float64Distance(x, y) == distanceAt(x, y, IF x.exp < y.exp THEN x.exp ELSE y.exp)

\* x / y for finite x and y > 0: the quotient of the significands if it
\* is whole, or else 55 bits of it or more, and one bit more for the rest
\* of the division
sticky(qr, exp) == Float64(plus(double(qr.q), <<>>, IF qr.rest THEN 1 ELSE 0), exp - 1)
ratio(x, y, bits) ==
    IF bits > 0 THEN sticky(over(shift(x.man, bits), y.man), x.exp - y.exp - bits)
    ELSE sticky(over(x.man, y.man), x.exp - y.exp)
wholeOr(qr, x, y) ==
    IF qr.rest THEN ratio(x, y, bitLength(y.man) + 55 - bitLength(x.man))
    ELSE Float64(qr.q, x.exp - y.exp)
Float64Over(x, y) ==
    IF y.inf \/ x.man = <<>> THEN Zero ELSE wholeOr(over(x.man, y.man), x, y)

\* uint64(x), int64(x): the whole part of x
Uint64(x) == shift(x.man, x.exp)

\* whether math.Sqrt(v) is the whole number r + 1, for r the whole part of
\* the root of v, of e <= 53 bits.  The float64 below r + 1 lies 2^(e - 53)
\* lower, and the root is rounded to r + 1 from the middle m of the two on.
\* m * 2^(54 - e) is an odd number of 54 bits or more, so m^2 is no float64
\* and the root of v is never m.  For e <= 26, m^2 is less than 1 under
\* (r + 1)^2, and v is not under m^2 only if its whole part is
\* (r + 1)^2 - 1.
midway(r, e) == minus(shift(plus(r, <<>>, 1), 54 - e), <<1>>)
reaches(v, mid2, bits) ==
    IF bits >= 0 THEN ~less(shift(v.man, bits), mid2)
    ELSE ~less(v.man, shift(mid2, -bits))
roundsUp(r, v, e) ==
    IF e <= 26 /\ plus(Uint64(v), <<>>, 1) # square(plus(r, <<>>, 1)) THEN FALSE
    ELSE reaches(v, square(midway(r, e)), v.exp + 108 - 2 * e)

\* the whole part of math.Sqrt(v), which is the float64 nearest to the
\* root of v; r is the whole part of the root itself.  An r of 54 bits or
\* more is rounded to 53 bits, with one bit more for what the root has
\* over r.
wholeRoot(r, v) ==
    IF bitLength(r) <= 53
    THEN (IF roundsUp(r, v, bitLength(r)) THEN plus(r, <<>>, 1) ELSE r)
    ELSE Uint64(Float64(plus(double(r), <<>>, IF square(r) = Uint64(v) THEN 0 ELSE 1), -1))
Sqrt(v) == wholeRoot(root(Uint64(v)), v)

\* ------------------------------------------------------------------------
\* time.Duration: an int64 count of nanoseconds, kept as a sign and a
\* count; zero has the sign FALSE.
\* ------------------------------------------------------------------------

Signed(neg, count) == [neg |-> neg /\ count # <<>>, ns |-> count]

ZeroDuration == Signed(FALSE, <<>>)

\* n * time.Nanosecond and n * time.Second, for an integer n >= 0
Nanoseconds(n) == Signed(FALSE, natOf(n))
Seconds(n) == Signed(FALSE, timesSmall(natOf(1000 * 1000 * 1000), n))

\* 1 << 63, 1 << 64 and (1<<63 - 1) / 10, which is 1<<63 / 10 as well
Bit63 == shift(<<1>>, 63)
Bit64 == shift(<<1>>, 64)
MaxInt64Tenth == overSmall(minus(Bit63, <<1>>), 10).q

\* a sum or difference of two int64 wraps around
Wrap64(d) ==
    IF ~d.neg /\ ~less(d.ns, Bit63) THEN Signed(TRUE, minus(Bit64, d.ns))
    ELSE IF d.neg /\ less(Bit63, d.ns) THEN Signed(FALSE, minus(Bit64, d.ns))
    ELSE d

\* a < b, -a, a + b, a - b of Durations
Less(a, b) ==
    IF a.neg # b.neg THEN a.neg
    ELSE IF a.neg THEN less(b.ns, a.ns) ELSE less(a.ns, b.ns)
Neg(a) == Wrap64(Signed(~a.neg, a.ns))
Add(a, b) ==
    Wrap64(IF a.neg = b.neg THEN Signed(a.neg, plus(a.ns, b.ns, 0))
           ELSE IF less(a.ns, b.ns) THEN Signed(b.neg, minus(b.ns, a.ns))
           ELSE Signed(a.neg, minus(a.ns, b.ns)))
Sub(a, b) == Add(a, Neg(b))

\* ------------------------------------------------------------------------
\* time.ParseDuration
\* ------------------------------------------------------------------------

\* time.unitMap: the nanoseconds of a unit
UnitKnown(u) ==
    u \in {<<"n", "s">>, <<"u", "s">>, <<"µ", "s">>, <<"μ", "s">>, <<"m", "s">>,
           <<"s">>, <<"m">>, <<"h">>}
unitMap(u) ==
    CASE u = <<"n", "s">> -> <<1>>
      [] u \in {<<"u", "s">>, <<"µ", "s">>, <<"μ", "s">>} -> <<1000>>
      [] u = <<"m", "s">> -> natOf(1000 * 1000)
      [] u = <<"s">> -> natOf(1000 * 1000 * 1000)
      [] u = <<"m">> -> timesSmall(natOf(1000 * 1000 * 1000), 60)
      [] u = <<"h">> -> timesSmall(natOf(1000 * 1000 * 1000), 3600)

\* the string is not a duration
Invalid == [err |-> TRUE, d |-> <<>>]

\* x * 10 + the digit c, or the overflow of time.leadingInt: x is over
\* 1<<63 / 10, or the new x is over 1 << 63
nextDigit(v) == IF less(Bit63, v) THEN [err |-> TRUE, v |-> <<>>] ELSE [err |-> FALSE, v |-> v]
withDigit(x, c) ==
    IF less(MaxInt64Tenth, x.v) THEN [err |-> TRUE, v |-> <<>>]
    ELSE nextDigit(plus(timesSmall(x.v, 10), natOf(DigitOf(c)), 0))

\* time.leadingInt over the digit string s, after the digits that gave x.
\* A long string is read in two parts, as in shift.
RECURSIVE leadingInt(_, _)
leadingInt(s, x) ==
    IF s = <<>> \/ x.err THEN x
    ELSE IF Len(s) = 1 THEN withDigit(x, s[1])
    ELSE leadingInt(SubSeq(s, Len(s) \div 2 + 1, Len(s)),
                    leadingInt(SubSeq(s, 1, Len(s) \div 2), x))

\* a digit of time.leadingFraction: x = part.f, y = x * 10 + the digit c,
\* scale *= 10 in float64; overflow leaves x and scale as they are for good
anotherDigit(part, y) ==
    IF less(Bit63, y) THEN [f |-> part.f, scale |-> part.scale, overflow |-> TRUE]
    ELSE [f |-> y, scale |-> Float64Times(part.scale, Float64Of(<<10>>)), overflow |-> FALSE]
fractionDigit(part, c) ==
    IF less(MaxInt64Tenth, part.f) THEN [f |-> part.f, scale |-> part.scale, overflow |-> TRUE]
    ELSE anotherDigit(part, plus(timesSmall(part.f, 10), natOf(DigitOf(c)), 0))

\* time.leadingFraction over the digit string s, after the digits that gave
\* part: f, the float64 scale and whether a digit overflowed
RECURSIVE leadingFraction(_, _)
leadingFraction(s, part) ==
    IF s = <<>> \/ part.overflow THEN part
    ELSE IF Len(s) = 1 THEN fractionDigit(part, s[1])
    ELSE leadingFraction(SubSeq(s, Len(s) \div 2 + 1, Len(s)),
                         leadingFraction(SubSeq(s, 1, Len(s) \div 2), part))

\* uint64(float64(f) * (float64(unit) / scale))
fraction(f, unit, scale) ==
    Uint64(Float64Times(Float64Of(f), Float64Over(Float64Of(unit), scale)))

\* the group <digits>[.<digits>]<unit> at the head of s: the digits before
\* and after the ".", the unit, and what follows the group
headGroup(s) ==
    LET pre == LeadingDigits(s)
        s1 == SubSeq(s, pre + 1, Len(s))
        s2 == IF s1 # <<>> /\ s1[1] = "." THEN Tail(s1) ELSE s1
        post == IF s1 # <<>> /\ s1[1] = "." THEN LeadingDigits(s2) ELSE 0
        s3 == SubSeq(s2, post + 1, Len(s2))
        nu == LeadingUnit(s3)
    IN  [pre |-> SubSeq(s, 1, pre), post |-> SubSeq(s2, 1, post),
         unit |-> SubSeq(s3, 1, nu), rest |-> SubSeq(s3, nu + 1, Len(s3))]

\* the loop of time.ParseDuration over the groups of s; d is the uint64 sum
\* of the groups read so far
RECURSIVE parseGroups(_, _)

\* a uint64 keeps the last 64 bits of a count
wrap(d) == minus(d, shift(shift(d, -64), 64))

\* d += v; if d > 1<<63, the string is invalid
sumGroups(d, rest) ==
    IF less(Bit63, d) THEN Invalid ELSE parseGroups(rest, d)

\* if f > 0 { v += the fraction of the unit; if v > 1<<63, the string is
\* invalid }
addFraction(v, rest, d) ==
    IF less(Bit63, v) THEN Invalid ELSE sumGroups(wrap(plus(d, v, 0)), rest)

\* if v > 1<<63/unit, the string is invalid: that is, if v * unit is over
\* 1 << 63; v *= unit
addValue(v, part, unit, rest, d) ==
    IF less(Bit63, v) THEN Invalid
    ELSE IF part.f = <<>> THEN sumGroups(wrap(plus(d, v, 0)), rest)
    ELSE addFraction(plus(v, fraction(part.f, unit, part.scale), 0), rest, d)

\* the digits before the "." must not overflow
addWhole(whole, g, d) ==
    IF whole.err THEN Invalid
    ELSE addValue(times(whole.v, unitMap(g.unit)),
                  leadingFraction(g.post, [f |-> <<>>, scale |-> Float64Of(<<1>>), overflow |-> FALSE]),
                  unitMap(g.unit), g.rest, d)

\* a group needs a digit before or after the "." and a unit of unitMap
addGroup(g, d) ==
    IF g.pre = <<>> /\ g.post = <<>> THEN Invalid
    ELSE IF g.unit = <<>> THEN Invalid
    ELSE IF ~UnitKnown(g.unit) THEN Invalid
    ELSE addWhole(leadingInt(g.pre, [err |-> FALSE, v |-> <<>>]), g, d)

parseGroups(s, d) ==
    IF s = <<>> THEN [err |-> FALSE, d |-> d] ELSE addGroup(headGroup(s), d)

\* the Duration of the sum r of the groups: 1 << 63 nanoseconds is a
\* Duration only with the sign -
signedDuration(neg, r) ==
    IF r.err THEN [err |-> TRUE, d |-> ZeroDuration]
    ELSE IF ~neg /\ r.d = Bit63 THEN [err |-> TRUE, d |-> ZeroDuration]
    ELSE [err |-> FALSE, d |-> Signed(neg, r.d)]

\* time.ParseDuration: [+-]? then "0" or groups
ParseDuration(s0) ==
    LET signed == s0 # <<>> /\ s0[1] \in {"-", "+"}
        s == IF signed THEN Tail(s0) ELSE s0
    IN  IF s = <<"0">> THEN [err |-> FALSE, d |-> ZeroDuration]
        ELSE IF s = <<>> THEN [err |-> TRUE, d |-> ZeroDuration]
        ELSE signedDuration(signed /\ s0[1] = "-", parseGroups(s, <<>>))

\* ------------------------------------------------------------------------
\* Delay policy (cmd/vtrace/root.go)
\* ------------------------------------------------------------------------

\* the bounds lo and hi as they were parsed, in whatever order
anyRange(lo, hi) ==
    IF lo.err THEN [err |-> "invalid min delay", minDelay |-> ZeroDuration, maxDelay |-> ZeroDuration]
    ELSE IF hi.err THEN [err |-> "invalid max delay", minDelay |-> ZeroDuration, maxDelay |-> ZeroDuration]
    ELSE [err |-> "", minDelay |-> lo.d, maxDelay |-> hi.d]

\* parseDelayRange without the check that min does not exceed max
parseDelayRangeUnordered(rangeStr) ==
    LET parts == Split(rangeStr, "-")
    IN  IF Len(parts) # 2
        THEN [err |-> "expected format: <min>-<max>", minDelay |-> ZeroDuration, maxDelay |-> ZeroDuration]
        ELSE anyRange(ParseDuration(parts[1]), ParseDuration(parts[2]))

\* parseDelayRange once both bounds were parsed to lo and hi
orderedRange(lo, hi) ==
    IF lo.err THEN [err |-> "invalid min delay", minDelay |-> ZeroDuration, maxDelay |-> ZeroDuration]
    ELSE IF hi.err THEN [err |-> "invalid max delay", minDelay |-> ZeroDuration, maxDelay |-> ZeroDuration]
    ELSE IF Less(hi.d, lo.d)
         THEN [err |-> "min delay cannot be greater than max delay",
               minDelay |-> ZeroDuration, maxDelay |-> ZeroDuration]
    ELSE [err |-> "", minDelay |-> lo.d, maxDelay |-> hi.d]

\* parseDelayRange: err is "" on success
parseDelayRange(rangeStr) ==
    LET parts == Split(rangeStr, "-")
    IN  IF Len(parts) # 2
        THEN [err |-> "expected format: <min>-<max>", minDelay |-> ZeroDuration, maxDelay |-> ZeroDuration]
        ELSE orderedRange(ParseDuration(parts[1]), ParseDuration(parts[2]))

\* rand.Int63n(n): any count of [0, n); it panics for n <= 0
Int63n(n) ==
    IF n.neg \/ n = ZeroDuration THEN {}
    ELSE IF Len(n.ns) <= 2 THEN {Nanoseconds(k) : k \in 0..(intOf(n.ns) - 1)}
    ELSE {Signed(FALSE, trim(r)) :
              r \in {x \in [1..Len(n.ns) -> 0..(Limb - 1)] : less(trim(x), n.ns)}}

\* ------------------------------------------------------------------------
\* State
\* ------------------------------------------------------------------------

VARIABLES
    \* flags and environment, fixed for one execution
    tool,            \* "vtrace" (TTFF of an HLS stream) or "atrace" (TTFB of an asset)
    samples,         \* --samples
    delay,           \* --delay
    delayRandom,     \* --delay-random, a character sequence
    compare,         \* --compare
    ffprobe,         \* whether ffprobe is found in PATH
    \* run / runCompare
    pc,              \* position of the program
    minDelay,
    maxDelay,
    i,               \* loop index of the sample loop
    stack,           \* transport stack being measured: "http12" or "http3"
    allSamples,      \* run: allSamples; runCompare: http12Samples
    http3Samples,    \* runCompare: http3Samples
    sleepDuration,   \* the delay being slept, when pc = "sleep"
    err,             \* the error run returns
    reported,        \* which report was printed
    idleConn,        \* origins to which the transport of the pass's client
                     \* holds an open connection
    \* measureTTFF / measureTTFFHTTP3 / measureTTFB locals
    result,          \* *probe.PlaylistResult
    manifestTrace,
    baseURL,
    variantURL,
    segmentURL,
    segmentTrace,
    frameDetection,
    sample,
    \* observation of the execution (not program state)
    stages,          \* stages the current pass has started, in order
    fetches,         \* requests the current pass has issued, in order
    passes,          \* passes started in this execution
    sleeps,          \* time.Sleep calls made in this execution
    requested,       \* whether any network request was issued
    requestFailed,   \* whether a network request has failed
    \* library calls checked on their own
    call             \* the last library call: its function, arguments and result

cfgVars == <<tool, samples, delay, delayRandom, compare, ffprobe>>
runVars == <<pc, minDelay, maxDelay, i, stack, allSamples, http3Samples,
             sleepDuration, err, reported, idleConn>>
passVars == <<result, manifestTrace, baseURL, variantURL, segmentURL,
              segmentTrace, frameDetection, sample>>
obsVars == <<stages, fetches, passes, sleeps, requested, requestFailed>>
vars == <<cfgVars, runVars, passVars, obsVars, call>>

\* ------------------------------------------------------------------------
\* getDelay (cmd/vtrace/root.go): the set of delays one call may return
\* ------------------------------------------------------------------------

getDelay(lo, hi) ==
    IF Less(ZeroDuration, lo) \/ Less(ZeroDuration, hi)
    THEN LET rangeNs == Sub(hi, lo)
         IN  {Add(lo, randomNs) : randomNs \in Int63n(Add(rangeNs, Nanoseconds(1)))}
    ELSE {delay}

\* ------------------------------------------------------------------------
\* URLs (internal/probe/hls.go)
\* ------------------------------------------------------------------------

\* origins: the first component of an absolute URL ("http://", "https://")
Origins == {"https://origin", "https://cdn"}

\* net/url.Parse fails on a malformed escape
Unparsable(u) == \E k \in 1..Len(u) : u[k] = "%zz"

\* strings.HasPrefix(ref, "http://") || strings.HasPrefix(ref, "https://")
IsAbsolute(ref) == ref # <<>> /\ ref[1] \in Origins

\* resolveURL: a relative reference replaces the file of the base
resolveURL(base, ref) ==
    IF IsAbsolute(ref) THEN [err |-> "", url |-> ref]
    ELSE IF Unparsable(base) THEN [err |-> "failed to parse base URL", url |-> <<>>]
    ELSE IF Unparsable(ref) THEN [err |-> "failed to parse reference URL", url |-> <<>>]
    ELSE [err |-> "", url |-> base \o ref]

\* GetBaseURL: the URL without its last path component
GetBaseURL(fullURL) ==
    IF Unparsable(fullURL) THEN [err |-> "failed to parse URL", url |-> <<>>]
    ELSE IF Len(fullURL) > 1
         THEN [err |-> "", url |-> SubSeq(fullURL, 1, Len(fullURL) - 1)]
         ELSE [err |-> "", url |-> fullURL]

\* ------------------------------------------------------------------------
\* Playlists (github.com/grafov/m3u8 values, as probe uses them)
\* ------------------------------------------------------------------------

\* a nil pointer
Nil == [nil |-> TRUE]

ErrNoVariants == "master playlist has no variants"
ErrNoSegments == "media playlist has no segments"
ErrInvalidPlaylist == "invalid or unrecognized playlist format"

\* GetFirstVariantURL
GetFirstVariantURL(master, base) ==
    IF master = Nil \/ Len(master.Variants) = 0
    THEN [err |-> ErrNoVariants, url |-> <<>>]
    ELSE resolveURL(base, master.Variants[1].URI)

\* the first segment that is not nil, whether or not it has a URI
FirstNonNil(segs) ==
    IF \E k \in 1..Len(segs) : segs[k] # Nil
    THEN CHOOSE k \in 1..Len(segs) :
             segs[k] # Nil /\ \A j \in 1..(k - 1) : segs[j] = Nil
    ELSE 0

\* index of the first segment that is not nil and has a URI, 0 if none
FirstUsable(segs) ==
    IF \E k \in 1..Len(segs) : segs[k] # Nil /\ segs[k].URI # <<>>
    THEN CHOOSE k \in 1..Len(segs) :
             /\ segs[k] # Nil /\ segs[k].URI # <<>>
             /\ \A j \in 1..(k - 1) : ~(segs[j] # Nil /\ segs[j].URI # <<>>)
    ELSE 0

\* GetFirstSegmentURL
GetFirstSegmentURL(media, base) ==
    IF media = Nil THEN [err |-> ErrNoSegments, url |-> <<>>]
    ELSE LET k == FirstUsable(media.Segments)
         IN  IF k = 0 THEN [err |-> ErrNoSegments, url |-> <<>>]
             ELSE resolveURL(base, media.Segments[k].URI)

\* ------------------------------------------------------------------------
\* Phase traces (internal/probe/trace.go).  A timestamp is a positive
\* integer; 0 is the zero time.Time (IsZero).
\* ------------------------------------------------------------------------

\* a buildTrace whose Total runs from the end of the connect phase
buildTraceFromConnect(state, now) ==
    [DNSLookup     |-> IF state.dnsStart # 0 /\ state.dnsDone # 0
                       THEN state.dnsDone - state.dnsStart ELSE 0,
     TCPConnect    |-> IF state.connectStart # 0 /\ state.connectDone # 0
                       THEN state.connectDone - state.connectStart ELSE 0,
     TLSHandshake  |-> IF state.tlsHandshakeStart # 0 /\ state.tlsHandshakeDone # 0
                       THEN state.tlsHandshakeDone - state.tlsHandshakeStart ELSE 0,
     QUICHandshake |-> 0,
     TTFB          |-> IF state.firstByte # 0 THEN state.firstByte - state.start ELSE 0,
     Total         |-> now - (IF state.connectDone # 0 THEN state.connectDone
                              ELSE state.start)]

\* buildTrace: the stream transport (HTTP/1.1-2)
buildTrace(state, now) ==
    [DNSLookup     |-> IF state.dnsStart # 0 /\ state.dnsDone # 0
                       THEN state.dnsDone - state.dnsStart ELSE 0,
     TCPConnect    |-> IF state.connectStart # 0 /\ state.connectDone # 0
                       THEN state.connectDone - state.connectStart ELSE 0,
     TLSHandshake  |-> IF state.tlsHandshakeStart # 0 /\ state.tlsHandshakeDone # 0
                       THEN state.tlsHandshakeDone - state.tlsHandshakeStart ELSE 0,
     QUICHandshake |-> 0,
     TTFB          |-> IF state.firstByte # 0 THEN state.firstByte - state.start ELSE 0,
     Total         |-> now - state.start]

\* a buildHTTP3Trace whose handshake always runs from the start of the fetch
buildHTTP3TraceFromStart(state, now) ==
    [DNSLookup     |-> IF state.dnsStart # 0 /\ state.dnsDone # 0
                       THEN state.dnsDone - state.dnsStart ELSE 0,
     TCPConnect    |-> 0,
     TLSHandshake  |-> 0,
     QUICHandshake |-> IF state.gotConn # 0 THEN state.gotConn - state.start ELSE 0,
     TTFB          |-> IF state.firstByte # 0 THEN state.firstByte - state.start ELSE 0,
     Total         |-> now - state.start]

\* buildHTTP3Trace: the multiplexed transport (HTTP/3)
buildHTTP3Trace(state, now) ==
    LET quicStart == IF state.dnsDone # 0 THEN state.dnsDone ELSE state.start
    IN  [DNSLookup     |-> IF state.dnsStart # 0 /\ state.dnsDone # 0
                           THEN state.dnsDone - state.dnsStart ELSE 0,
         TCPConnect    |-> 0,
         TLSHandshake  |-> 0,
         QUICHandshake |-> IF state.gotConn # 0 THEN state.gotConn - quicStart ELSE 0,
         TTFB          |-> IF state.firstByte # 0 THEN state.firstByte - state.start ELSE 0,
         Total         |-> now - state.start]

\* ------------------------------------------------------------------------
\* What the network can answer to one request
\* ------------------------------------------------------------------------

\* per-phase latencies the network may show
Latencies == {1, 2}

\* the timestamps the httptrace callbacks write during one request whose
\* phases each take about d, and the clock when client.Do returns
Timeline12(d) ==
    [state |-> [start |-> 1, dnsStart |-> 1, dnsDone |-> 1 + d,
                connectStart |-> 1 + d, connectDone |-> 2 + 2 * d,
                tlsHandshakeStart |-> 2 + 2 * d, tlsHandshakeDone |-> 4 + 3 * d,
                firstByte |-> 4 + 4 * d],
     now |-> 4 + 5 * d]

Timeline3(d) ==
    [state |-> [start |-> 1, dnsStart |-> 1, dnsDone |-> 1 + d,
                gotConn |-> 2 + 3 * d, firstByte |-> 2 + 4 * d],
     now |-> 2 + 5 * d]

Timeline(st, d) == IF st = "http12" THEN Timeline12(d) ELSE Timeline3(d)

\* the same on a connection the transport already holds: no lookup, no
\* connect and no handshake take place, so their callbacks are not called
Reused12(d) ==
    [state |-> [start |-> 1, dnsStart |-> 0, dnsDone |-> 0,
                connectStart |-> 0, connectDone |-> 0,
                tlsHandshakeStart |-> 0, tlsHandshakeDone |-> 0,
                firstByte |-> 1 + d],
     now |-> 1 + 2 * d]

Reused3(d) ==
    [state |-> [start |-> 1, dnsStart |-> 0, dnsDone |-> 0,
                gotConn |-> 1, firstByte |-> 1 + d],
     now |-> 1 + 2 * d]

Reused(st, d) == IF st = "http12" THEN Reused12(d) ELSE Reused3(d)

\* statuses a server may answer with
Statuses == {StatusOK, 404}

VariantV0 == [URI |-> <<"v0.m3u8">>]
VariantV1 == [URI |-> <<"https://cdn", "hd", "v1.m3u8">>]
MasterPlaylists ==
    {[Variants |-> <<>>], [Variants |-> <<VariantV0>>],
     [Variants |-> <<VariantV1, VariantV0>>]}

EmptySegment == [URI |-> <<>>]
Segment0 == [URI |-> <<"seg0.ts">>]
Segment1 == [URI |-> <<"https://cdn", "seg1.ts">>]
BadSegment == [URI |-> <<"%zz">>]
MediaPlaylists ==
    {[Segments |-> <<>>], [Segments |-> <<Nil, Nil, Segment0>>],
     [Segments |-> <<EmptySegment, Nil>>], [Segments |-> <<Segment1, Segment0>>],
     [Segments |-> <<BadSegment>>]}

EmptyBody == [kind |-> "empty", playlist |-> Nil]
ManifestBodies ==
    {[kind |-> "MASTER", playlist |-> m] : m \in MasterPlaylists}
    \cup {[kind |-> "MEDIA", playlist |-> m] : m \in MediaPlaylists}
    \cup {[kind |-> "garbage", playlist |-> Nil], [kind |-> "unknown", playlist |-> Nil]}
SegmentBodies == {[kind |-> "ts", playlist |-> Nil]}

\* the answers to one request on a new connection of transport stack st
\* whose 200 responses carry one of bodies: client.Do fails, or a status and
\* a body arrive (the body may then fail to be read)
Dialed(st, bodies) ==
    {[doErr |-> TRUE, status |-> 0, body |-> EmptyBody, readErr |-> FALSE,
      reused |-> FALSE, tl |-> Timeline(st, 1)]}
    \cup {[doErr |-> FALSE, status |-> c, body |-> EmptyBody, readErr |-> FALSE,
           reused |-> FALSE, tl |-> Timeline(st, d)] :
             c \in Statuses \ {StatusOK}, d \in Latencies}
    \cup {[doErr |-> FALSE, status |-> StatusOK, body |-> b, readErr |-> r,
           reused |-> FALSE, tl |-> Timeline(st, d)] :
             b \in bodies, d \in Latencies, r \in BOOLEAN}

\* the answers to one request: when the transport holds a connection to the
\* origin (pooled) the request may go over it, or over a new connection if
\* the held one has been closed meanwhile
Net(st, bodies, pooled) ==
    Dialed(st, bodies)
    \cup (IF pooled
          THEN {[n EXCEPT !.reused = TRUE, !.tl = Reused(st, 1)] :
                   n \in {m \in Dialed(st, bodies) : ~m.doErr}}
          ELSE {})

\* the transport of a client: http.DefaultTransport for NewHTTPClient, which
\* all clients of the process share, and for NewHTTP3Client a transport of
\* its own.  Pooled: it holds a connection to the origin of u.  KeepConn:
\* what it holds after the request to u was answered.
Pooled(u) == u[1] \in idleConn

KeepConn(u, net) == IF net.doErr THEN idleConn ELSE idleConn \cup {u[1]}

\* ------------------------------------------------------------------------
\* Traced fetches (internal/probe/trace.go)
\* ------------------------------------------------------------------------

\* FetchWithTrace: (resp, trace, err)
FetchWithTrace(net) ==
    IF net.doErr THEN [err |-> "transport", resp |-> Nil, trace |-> Nil]
    ELSE [err |-> "",
          resp |-> [StatusCode |-> net.status, Body |-> net.body, readErr |-> net.readErr],
          trace |-> buildTrace(net.tl.state, net.tl.now)]

\* FetchWithTraceHTTP3
FetchWithTraceHTTP3(net) ==
    IF net.doErr THEN [err |-> "transport", resp |-> Nil, trace |-> Nil]
    ELSE [err |-> "",
          resp |-> [StatusCode |-> net.status, Body |-> net.body, readErr |-> net.readErr],
          trace |-> buildHTTP3Trace(net.tl.state, net.tl.now)]

\* ------------------------------------------------------------------------
\* Playlist and segment fetches (internal/probe/hls.go)
\* ------------------------------------------------------------------------

\* m3u8.DecodeFrom(resp.Body, true): (playlist, listType, err)
DecodeFrom(resp) ==
    IF resp.readErr \/ resp.Body.kind \in {"garbage", "empty", "ts"}
    THEN [err |-> TRUE, listType |-> "none", playlist |-> Nil]
    ELSE [err |-> FALSE, listType |-> resp.Body.kind, playlist |-> resp.Body.playlist]

\* what FetchPlaylist and FetchPlaylistHTTP3 do with the traced fetch f
ParsePlaylist(f) ==
    IF f.err # "" THEN [err |-> "failed to fetch playlist", result |-> Nil]
    ELSE IF f.resp.StatusCode # StatusOK
         THEN [err |-> "playlist fetch returned status", result |-> Nil]
    ELSE LET dec == DecodeFrom(f.resp)
         IN  IF dec.err THEN [err |-> "failed to parse playlist", result |-> Nil]
             ELSE IF dec.listType = "MASTER"
                  THEN [err |-> "",
                        result |-> [Master |-> dec.playlist, Media |-> Nil, Trace |-> f.trace]]
             ELSE IF dec.listType = "MEDIA"
                  THEN [err |-> "",
                        result |-> [Master |-> Nil, Media |-> dec.playlist, Trace |-> f.trace]]
             ELSE [err |-> ErrInvalidPlaylist, result |-> Nil]

FetchPlaylist(net) == ParsePlaylist(FetchWithTrace(net))

FetchPlaylistHTTP3(net) == ParsePlaylist(FetchWithTraceHTTP3(net))

\* what DownloadSegment and DownloadSegmentHTTP3 do with the traced fetch f
ReadSegment(f) ==
    IF f.err # "" THEN [err |-> "failed to download segment", data |-> Nil, trace |-> Nil]
    ELSE IF f.resp.StatusCode # StatusOK
         THEN [err |-> "segment download returned status", data |-> Nil, trace |-> Nil]
    ELSE IF f.resp.readErr
         THEN [err |-> "failed to read segment data", data |-> Nil, trace |-> Nil]
    ELSE [err |-> "", data |-> f.resp.Body, trace |-> f.trace]

DownloadSegment(net) == ReadSegment(FetchWithTrace(net))

DownloadSegmentHTTP3(net) == ReadSegment(FetchWithTraceHTTP3(net))

\* ------------------------------------------------------------------------
\* Frame detection (internal/decoder)
\* ------------------------------------------------------------------------

ErrFFprobeNotFound == "ffprobe not found in PATH"
ErrNoFramesFound == "no video frames found in segment"

\* durations ffprobe may take, in ms
DetectionTimes == {12}

\* what one ffprobe invocation can do: not in PATH, exit with an error (or
\* be killed when the context is done), print bad JSON, print no frame,
\* print a frame
DetectOutcomes ==
    {[found |-> FALSE, runErr |-> FALSE, jsonErr |-> FALSE, frames |-> 0, elapsed |-> 0],
     [found |-> TRUE, runErr |-> TRUE, jsonErr |-> FALSE, frames |-> 0, elapsed |-> 0],
     [found |-> TRUE, runErr |-> FALSE, jsonErr |-> TRUE, frames |-> 0, elapsed |-> 0],
     [found |-> TRUE, runErr |-> FALSE, jsonErr |-> FALSE, frames |-> 0, elapsed |-> 0]}
    \cup {[found |-> TRUE, runErr |-> FALSE, jsonErr |-> FALSE, frames |-> 1, elapsed |-> e] :
             e \in DetectionTimes}

\* DetectFirstFrame: (elapsed, err)
DetectFirstFrame(env) ==
    IF ~env.found THEN [err |-> ErrFFprobeNotFound, elapsed |-> 0]
    ELSE IF env.runErr THEN [err |-> "ffprobe failed", elapsed |-> 0]
    ELSE IF env.jsonErr THEN [err |-> "failed to parse ffprobe output", elapsed |-> 0]
    ELSE IF env.frames = 0 THEN [err |-> ErrNoFramesFound, elapsed |-> 0]
    ELSE [err |-> "", elapsed |-> env.elapsed]

\* ------------------------------------------------------------------------
\* Samples (internal/stats/stats.go, cmd/vtrace/root.go, atrace)
\* ------------------------------------------------------------------------

\* stats.Sample{}
ZeroSample ==
    [DNSLookup |-> 0, TCPConnect |-> 0, TLSHandshake |-> 0, QUICHandshake |-> 0,
     ManifestTTFB |-> 0, ManifestTotal |-> 0, SegmentTotal |-> 0,
     FrameDetection |-> 0, TotalTTFF |-> 0]

\* stats.AssetSample{}
ZeroAssetSample ==
    [DNSLookup |-> 0, TCPConnect |-> 0, TLSHandshake |-> 0, QUICHandshake |-> 0,
     TTFB |-> 0, TotalTime |-> 0]

\* a Sample whose total also counts the time to first byte of the manifest
SampleTTFFSummed(mt, st, fd) ==
    [DNSLookup      |-> mt.DNSLookup,
     TCPConnect     |-> mt.TCPConnect,
     TLSHandshake   |-> mt.TLSHandshake,
     QUICHandshake  |-> 0,
     ManifestTTFB   |-> mt.TTFB,
     ManifestTotal  |-> mt.Total,
     SegmentTotal   |-> st.Total,
     FrameDetection |-> fd,
     TotalTTFF      |-> mt.TTFB + mt.Total + st.Total + fd]

\* the Sample measureTTFF assembles
SampleTTFF(mt, st, fd) ==
    [DNSLookup      |-> mt.DNSLookup,
     TCPConnect     |-> mt.TCPConnect,
     TLSHandshake   |-> mt.TLSHandshake,
     QUICHandshake  |-> 0,
     ManifestTTFB   |-> mt.TTFB,
     ManifestTotal  |-> mt.Total,
     SegmentTotal   |-> st.Total,
     FrameDetection |-> fd,
     TotalTTFF      |-> mt.Total + st.Total + fd]

\* the Sample measureTTFFHTTP3 assembles
SampleTTFFHTTP3(mt, st, fd) ==
    [DNSLookup      |-> mt.DNSLookup,
     TCPConnect     |-> 0,
     TLSHandshake   |-> 0,
     QUICHandshake  |-> mt.QUICHandshake,
     ManifestTTFB   |-> mt.TTFB,
     ManifestTotal  |-> mt.Total,
     SegmentTotal   |-> st.Total,
     FrameDetection |-> fd,
     TotalTTFF      |-> mt.Total + st.Total + fd]

\* what measureTTFB and measureTTFBHTTP3 do with the traced fetch f: the
\* body is drained, the status is not looked at
DrainAsset(f, quic) ==
    IF f.err # "" THEN [err |-> "failed to fetch asset", sample |-> ZeroAssetSample]
    ELSE IF f.resp.readErr
         THEN [err |-> "failed to read response body", sample |-> ZeroAssetSample]
    ELSE [err |-> "",
          sample |-> [DNSLookup     |-> f.trace.DNSLookup,
                      TCPConnect    |-> IF quic THEN 0 ELSE f.trace.TCPConnect,
                      TLSHandshake  |-> IF quic THEN 0 ELSE f.trace.TLSHandshake,
                      QUICHandshake |-> IF quic THEN f.trace.QUICHandshake ELSE 0,
                      TTFB          |-> f.trace.TTFB,
                      TotalTime     |-> f.trace.Total]]

\* measureTTFB (atrace): (sample, err)
measureTTFB(net) == DrainAsset(FetchWithTrace(net), FALSE)

\* measureTTFBHTTP3 (atrace)
measureTTFBHTTP3(net) == DrainAsset(FetchWithTraceHTTP3(net), TRUE)

AssetBodies == {[kind |-> "asset", playlist |-> Nil]}

\* ------------------------------------------------------------------------
\* Errors that run returns
\* ------------------------------------------------------------------------

NoErr == [kind |-> "none", stage |-> "", cause |-> "", index |-> 0, stack |-> ""]

ConfigErr(cause) ==
    [kind |-> IF cause = "ffprobe check failed" THEN "ffprobe" ELSE "config",
     stage |-> "", cause |-> cause, index |-> 0, stack |-> ""]

\* the error of a failed pass as run and runCompare wrap it: "sample %d
\* failed" in the multi-sample loops, the transport stack in compare mode
PassErr(stage, cause) ==
    [kind  |-> "pass",
     stage |-> stage,
     cause |-> cause,
     index |-> IF samples = 1 THEN 0 ELSE i + 1,
     stack |-> IF compare THEN stack ELSE ""]

\* the first stage of a pass
FirstStage == IF tool = "vtrace" THEN "FetchManifest" ELSE "FetchAsset"

\* the request log entry of one fetch: the stage that issued it, the URL,
\* and the status and body that came back (status 0: client.Do failed)
Request(stage, u, net) ==
    [stage |-> stage, url |-> u, status |-> IF net.doErr THEN 0 ELSE net.status,
     body |-> net.body, reused |-> net.reused]

\* ------------------------------------------------------------------------
\* Initial states: one execution of the command with some flags
\* ------------------------------------------------------------------------

\* values of --delay-random: unset, ranges, and malformed ranges
DelayRandomInputs ==
    {<<>>,
     <<"0", "s", "-", "0", "s">>,
     <<"0", "n", "s", "-", "1", "n", "s">>,
     <<"1", "0", "0", "0", "m", "s", "-", "1", "s">>,
     <<"0", ".", "5", "m", "s", "-", "5", "0", "0", "u", "s">>,
     <<"2", "s", "-", "1", "s">>,
     <<"1", "0", "0", "1", "m", "s", "-", "1", "s">>,
     <<"1", "s">>,
     <<"1", "s", "-", "x">>,
     <<"x", "-", "1", "s">>,
     <<"1", "s", "-", "2", "s", "-", "3", "s">>,
     \* two groups of 2^63 ns, whose uint64 sum is 0
     <<"9", "2", "2", "3", "3", "7", "2", "0", "3", "6", "8", "5", "4", "7",
       "7", "5", "8", "0", "8", "n", "s", "9", "2", "2", "3", "3", "7", "2",
       "0", "3", "6", "8", "5", "4", "7", "7", "5", "8", "0", "8", "n", "s",
       "-", "1", "n", "s">>,
     <<"1", "n", "s", "-", "9", "2", "2", "3", "3", "7", "2", "0", "3", "6",
       "8", "5", "4", "7", "7", "5", "8", "0", "8", "n", "s", "9", "2", "2",
       "3", "3", "7", "2", "0", "3", "6", "8", "5", "4", "7", "7", "5", "8",
       "0", "8", "n", "s">>,
     \* 23 digits after the point, whose float64 scale is not 10^23
     <<"4", "2", "n", "s", "-", "0", ".", "0", "0", "0", "0", "0", "0", "0",
       "4", "1", "9", "9", "9", "9", "9", "9", "9", "9", "9", "9", "9", "9",
       "9", "9", "s">>}

ZeroFor(t) == IF t = "vtrace" THEN ZeroSample ELSE ZeroAssetSample

NoCall == [fn |-> "none", args |-> <<>>, ret |-> Nil]

\* locals of a pass before the pass has assigned them
FreshPass ==
    /\ result = Nil
    /\ manifestTrace = Nil
    /\ baseURL = <<>>
    /\ variantURL = <<>>
    /\ segmentURL = <<>>
    /\ segmentTrace = Nil
    /\ frameDetection = 0

InitRun ==
    /\ minDelay = ZeroDuration
    /\ maxDelay = ZeroDuration
    /\ i = 0
    /\ stack = "http12"
    /\ allSamples = <<>>
    /\ http3Samples = <<>>
    /\ sleepDuration = ZeroDuration
    /\ err = NoErr
    /\ reported = "none"
    /\ idleConn = {}
    /\ FreshPass
    /\ sample = ZeroFor(tool)
    /\ stages = <<>>
    /\ fetches = <<>>
    /\ passes = 0
    /\ sleeps = 0
    /\ requested = FALSE
    /\ requestFailed = FALSE
    /\ call = NoCall

Init ==
    /\ tool \in {"vtrace", "atrace"}
    /\ samples \in 0..MaxSamples
    /\ delay = Seconds(DefaultDelay)
    /\ delayRandom \in DelayRandomInputs
    /\ compare \in BOOLEAN
    /\ ffprobe \in BOOLEAN
    /\ pc = "run"
    /\ InitRun

\* ------------------------------------------------------------------------
\* run: flag validation (root.go run, atrace run)
\* ------------------------------------------------------------------------

\* the error run returns before it measures anything, "" if none
FlagError ==
    IF tool = "vtrace" /\ ~ffprobe THEN "ffprobe check failed"
    ELSE IF samples < 1 THEN "samples must be at least 1"
    ELSE IF delayRandom # <<>> /\ parseDelayRange(delayRandom).err # ""
         THEN "invalid delay-random format"
    ELSE ""

RunStart ==
    /\ pc = "run"
    /\ IF FlagError # ""
       THEN /\ pc' = "failed"
            /\ err' = ConfigErr(FlagError)
            /\ UNCHANGED <<minDelay, maxDelay>>
       ELSE /\ pc' = FirstStage
            /\ err' = err
            /\ minDelay' = IF delayRandom # <<>>
                           THEN parseDelayRange(delayRandom).minDelay ELSE ZeroDuration
            /\ maxDelay' = IF delayRandom # <<>>
                           THEN parseDelayRange(delayRandom).maxDelay ELSE ZeroDuration
    /\ UNCHANGED <<cfgVars, i, stack, allSamples, http3Samples, sleepDuration,
                   reported, idleConn, passVars, obsVars, call>>

\* ------------------------------------------------------------------------
\* One pass: measureTTFF / measureTTFFHTTP3, stage by stage
\* ------------------------------------------------------------------------

\* what a pass leaves alone
loopFrame == <<cfgVars, minDelay, maxDelay, i, stack, allSamples, http3Samples,
               sleepDuration, reported, sleeps, call>>

\* a failed stage that is tried again instead of ending the pass
AbortRetry(stage, cause) ==
    /\ pc' = pc
    /\ err' = err
    /\ sample' = sample

\* return stats.Sample{}, nil, nil, fmt.Errorf(...): the pass ends, and run
\* returns the wrapped error
Abort(stage, cause) ==
    /\ pc' = "failed"
    /\ err' = PassErr(stage, cause)
    /\ sample' = ZeroFor(tool)

\* the stage goes on to the stage next
Proceed(next) ==
    /\ pc' = next
    /\ err' = err
    /\ sample' = sample

\* a pass that never follows a variant index
AfterManifestSkip(res) == "ResolveFirstSegment"

\* if result.Master != nil { ... }: where the pass goes after the first
\* manifest fetch
AfterManifest(res) ==
    IF res.Master # Nil THEN "ResolveVariant" ELSE "ResolveFirstSegment"

\* a pass that follows a variant index found behind a variant index
AfterVariantFollow(res) == AfterManifest(res)

\* after the media playlist fetch the pass goes on to the first segment,
\* whatever kind of playlist came back
AfterVariantManifest(res) == "ResolveFirstSegment"

FetchManifest ==
    /\ pc = "FetchManifest"
    /\ \E net \in Net(stack, ManifestBodies, Pooled(url)) :
         LET r == IF stack = "http12" THEN FetchPlaylist(net) ELSE FetchPlaylistHTTP3(net)
             b == GetBaseURL(url)
         IN  /\ stages' = <<"FetchManifest">>
             /\ idleConn' = KeepConn(url, net)
             /\ fetches' = <<Request("FetchManifest", url, net)>>
             /\ passes' = passes + 1
             /\ requested' = TRUE
             /\ requestFailed' = (requestFailed \/ r.err # "")
             /\ IF r.err # ""
                THEN /\ Abort("FetchManifest", "failed to fetch playlist")
                     /\ UNCHANGED <<result, manifestTrace, baseURL>>
                ELSE IF b.err # ""
                THEN /\ Abort("FetchManifest", "failed to get base URL")
                     /\ result' = r.result
                     /\ manifestTrace' = r.result.Trace
                     /\ UNCHANGED baseURL
                ELSE /\ Proceed(AfterManifest(r.result))
                     /\ result' = r.result
                     /\ manifestTrace' = r.result.Trace
                     /\ baseURL' = b.url
    /\ UNCHANGED <<variantURL, segmentURL, segmentTrace, frameDetection>>
    /\ UNCHANGED loopFrame

ResolveVariant ==
    /\ pc = "ResolveVariant"
    /\ LET v == GetFirstVariantURL(result.Master, baseURL)
       IN  /\ stages' = Append(stages, "ResolveVariant")
           /\ IF v.err # ""
              THEN /\ Abort("ResolveVariant", "failed to get variant URL")
                   /\ UNCHANGED variantURL
              ELSE /\ Proceed("FetchVariantManifest")
                   /\ variantURL' = v.url
    /\ UNCHANGED <<result, manifestTrace, baseURL, segmentURL, segmentTrace,
                   frameDetection>>
    /\ UNCHANGED <<fetches, passes, requested, requestFailed, idleConn>>
    /\ UNCHANGED loopFrame

FetchVariantManifest ==
    /\ pc = "FetchVariantManifest"
    /\ \E net \in Net(stack, ManifestBodies, Pooled(variantURL)) :
         LET r == IF stack = "http12" THEN FetchPlaylist(net) ELSE FetchPlaylistHTTP3(net)
             b == GetBaseURL(variantURL)
         IN  /\ stages' = Append(stages, "FetchVariantManifest")
             /\ idleConn' = KeepConn(variantURL, net)
             /\ fetches' = Append(fetches, Request("FetchVariantManifest", variantURL, net))
             /\ requestFailed' = (requestFailed \/ r.err # "")
             /\ IF r.err # ""
                THEN /\ Abort("FetchVariantManifest", "failed to fetch media playlist")
                     /\ UNCHANGED <<result, baseURL>>
                ELSE IF b.err # ""
                THEN /\ Abort("FetchVariantManifest", "failed to get variant base URL")
                     /\ result' = r.result
                     /\ UNCHANGED baseURL
                ELSE /\ Proceed(AfterVariantManifest(r.result))
                     /\ result' = r.result
                     /\ baseURL' = b.url
    /\ UNCHANGED <<manifestTrace, variantURL, segmentURL, segmentTrace, frameDetection>>
    /\ UNCHANGED <<passes, requested>>
    /\ UNCHANGED loopFrame

ResolveFirstSegment ==
    /\ pc = "ResolveFirstSegment"
    /\ LET g == GetFirstSegmentURL(result.Media, baseURL)
       IN  /\ stages' = Append(stages, "ResolveFirstSegment")
           /\ IF g.err # ""
              THEN /\ Abort("ResolveFirstSegment", g.err)
                   /\ UNCHANGED segmentURL
              ELSE /\ Proceed("FetchSegment")
                   /\ segmentURL' = g.url
    /\ UNCHANGED <<result, manifestTrace, baseURL, variantURL, segmentTrace,
                   frameDetection>>
    /\ UNCHANGED <<fetches, passes, requested, requestFailed, idleConn>>
    /\ UNCHANGED loopFrame

FetchSegment ==
    /\ pc = "FetchSegment"
    /\ \E net \in Net(stack, SegmentBodies, Pooled(segmentURL)) :
         LET d == IF stack = "http12" THEN DownloadSegment(net) ELSE DownloadSegmentHTTP3(net)
         IN  /\ stages' = Append(stages, "FetchSegment")
             /\ idleConn' = KeepConn(segmentURL, net)
             /\ fetches' = Append(fetches, Request("FetchSegment", segmentURL, net))
             /\ requestFailed' = (requestFailed \/ d.err # "")
             /\ IF d.err # ""
                THEN /\ Abort("FetchSegment", "failed to download segment")
                     /\ UNCHANGED segmentTrace
                ELSE /\ Proceed("DetectContentValidity")
                     /\ segmentTrace' = d.trace
    /\ UNCHANGED <<result, manifestTrace, baseURL, variantURL, segmentURL, frameDetection>>
    /\ UNCHANGED <<passes, requested>>
    /\ UNCHANGED loopFrame

DetectContentValidity ==
    /\ pc = "DetectContentValidity"
    /\ \E env \in DetectOutcomes :
         LET f == DetectFirstFrame(env)
         IN  /\ stages' = Append(stages, "DetectContentValidity")
             /\ IF f.err # ""
                THEN /\ Abort("DetectContentValidity", "failed to detect first frame")
                     /\ UNCHANGED frameDetection
                ELSE /\ Proceed("AssembleSample")
                     /\ frameDetection' = f.elapsed
    /\ UNCHANGED <<result, manifestTrace, baseURL, variantURL, segmentURL, segmentTrace>>
    /\ UNCHANGED <<fetches, passes, requested, requestFailed, idleConn>>
    /\ UNCHANGED loopFrame

AssembleSample ==
    /\ pc = "AssembleSample"
    /\ stages' = Append(stages, "AssembleSample")
    /\ sample' = IF stack = "http12"
                 THEN SampleTTFF(manifestTrace, segmentTrace, frameDetection)
                 ELSE SampleTTFFHTTP3(manifestTrace, segmentTrace, frameDetection)
    /\ pc' = "collect"
    /\ UNCHANGED <<err, result, manifestTrace, baseURL, variantURL, segmentURL,
                   segmentTrace, frameDetection>>
    /\ UNCHANGED <<fetches, passes, requested, requestFailed, idleConn>>
    /\ UNCHANGED loopFrame

\* one pass of atrace: measureTTFB / measureTTFBHTTP3
FetchAsset ==
    /\ pc = "FetchAsset"
    /\ \E net \in Net(stack, AssetBodies, Pooled(url)) :
         LET m == IF stack = "http12" THEN measureTTFB(net) ELSE measureTTFBHTTP3(net)
         IN  /\ stages' = <<"FetchAsset">>
             /\ idleConn' = KeepConn(url, net)
             /\ fetches' = <<Request("FetchAsset", url, net)>>
             /\ passes' = passes + 1
             /\ requested' = TRUE
             /\ requestFailed' = (requestFailed \/ m.err # "")
             /\ IF m.err # ""
                THEN Abort("FetchAsset", m.err)
                ELSE /\ pc' = "collect"
                     /\ err' = err
                     /\ sample' = m.sample
    /\ UNCHANGED <<result, manifestTrace, baseURL, variantURL, segmentURL,
                   segmentTrace, frameDetection>>
    /\ UNCHANGED loopFrame

\* ------------------------------------------------------------------------
\* run / runCompare: the sample loops
\* ------------------------------------------------------------------------

\* a sample put in front of the samples collected before it
prependSample(list, s) == <<s>> \o list

\* a sleep after every sample, the last one included
sleepAfterEvery(idx) == idx < samples

\* allSamples = append(allSamples, sample)
appendSample(list, s) == Append(list, s)

\* if i < samples-1 { time.Sleep(getDelay(...)) }
sleepNeeded(idx) == idx < samples - 1

\* A pass has returned its sample to run or runCompare: the sample is kept,
\* and the loop either sleeps, goes on to the HTTP/3 samples, or reports.
\* (With samples = 1 the single sample of each stack is held in the same
\* variables as the one-element lists.)  The locals of the pass are gone.
Collect ==
    /\ pc = "collect"
    /\ IF stack = "http12"
       THEN /\ allSamples' = appendSample(allSamples, sample)
            /\ UNCHANGED http3Samples
       ELSE /\ http3Samples' = appendSample(http3Samples, sample)
            /\ UNCHANGED allSamples
    /\ IF sleepNeeded(i)
       THEN /\ sleepDuration' \in getDelay(minDelay, maxDelay)
            /\ pc' = "sleep"
            /\ UNCHANGED <<i, stack>>
       ELSE IF compare /\ stack = "http12"
       THEN /\ pc' = FirstStage
            /\ stack' = "http3"
            /\ i' = 0
            /\ UNCHANGED sleepDuration
       ELSE /\ pc' = "report"
            /\ UNCHANGED <<i, stack, sleepDuration>>
    /\ result' = Nil
    /\ manifestTrace' = Nil
    /\ baseURL' = <<>>
    /\ variantURL' = <<>>
    /\ segmentURL' = <<>>
    /\ segmentTrace' = Nil
    /\ frameDetection' = 0
    /\ sample' = ZeroFor(tool)
    /\ stages' = <<>>
    /\ fetches' = <<>>
    /\ idleConn' = IF stack = "http3" \/ (compare /\ ~sleepNeeded(i))
                   THEN {} ELSE idleConn
    /\ UNCHANGED <<cfgVars, minDelay, maxDelay, err, reported, passes, sleeps,
                   requested, requestFailed, call>>

\* time.Sleep(sleepDuration), then the next iteration of the loop
Sleep ==
    /\ pc = "sleep"
    /\ sleeps' = sleeps + 1
    /\ i' = i + 1
    /\ sleepDuration' = ZeroDuration
    /\ pc' = FirstStage
    /\ UNCHANGED <<cfgVars, minDelay, maxDelay, stack, allSamples, http3Samples,
                   err, reported, idleConn, passVars, stages, fetches, passes,
                   requested, requestFailed, call>>

\* printResults / printMultiSampleResults / print...ComparisonResults
Report ==
    /\ pc = "report"
    /\ reported' = IF compare
                   THEN IF samples = 1 THEN "compare" ELSE "multicompare"
                   ELSE IF samples = 1 THEN "single" ELSE "multi"
    /\ pc' = "done"
    /\ UNCHANGED <<cfgVars, minDelay, maxDelay, i, stack, allSamples, http3Samples,
                   sleepDuration, err, idleConn, passVars, obsVars, call>>

Next ==
    \/ RunStart
    \/ FetchManifest
    \/ ResolveVariant
    \/ FetchVariantManifest
    \/ ResolveFirstSegment
    \/ FetchSegment
    \/ DetectContentValidity
    \/ AssembleSample
    \/ FetchAsset
    \/ Collect
    \/ Sleep
    \/ Report

Spec == Init /\ [][Next]_vars

\* ------------------------------------------------------------------------
\* Library functions called on their own, on every input up to the bounds
\* ------------------------------------------------------------------------

RECURSIVE SeqsUpTo(_, _)
SeqsUpTo(S, n) ==
    IF n = 0 THEN {<<>>}
    ELSE LET shorter == SeqsUpTo(S, n - 1)
         IN  shorter \cup {Append(q, x) : q \in {r \in shorter : Len(r) = n - 1}, x \in S}

\* entries of MediaPlaylist.Segments: nil, no URI, relative, absolute, malformed
SegmentEntries == {Nil, EmptySegment, Segment0, Segment1, BadSegment}

MediaInputs == {Nil} \cup {[Segments |-> q] : q \in SeqsUpTo(SegmentEntries, MaxSegments)}

BaseInputs == {<<"https://origin", "live">>}

InitLib ==
    /\ tool = "vtrace"
    /\ samples = 1
    /\ delay = Seconds(DefaultDelay)
    /\ delayRandom = <<>>
    /\ compare = FALSE
    /\ ffprobe = TRUE
    /\ pc = "lib"
    /\ InitRun

CallGetFirstSegmentURL ==
    /\ pc = "lib"
    /\ \E media \in MediaInputs, base \in BaseInputs :
         call' = [fn |-> "GetFirstSegmentURL", args |-> <<media, base>>,
                  ret |-> GetFirstSegmentURL(media, base)]
    /\ UNCHANGED <<cfgVars, runVars, passVars, obsVars>>

NextLib ==
    \/ CallGetFirstSegmentURL

SpecLib == InitLib /\ [][NextLib]_vars

\* ------------------------------------------------------------------------
\* Duration statistics (internal/stats/stats.go).  A time.Duration is an
\* integer.  computeStdDev computes in float64, with one rounding for each
\* operation as the code is written (the amd64 build fuses none of them).
\* computeQuartile and DetectOutliers take quarters and halves of
\* durations, which float64 does without rounding under 2^51 ns: they are
\* written with integers, a float64 quotient is kept as numerator and
\* denominator, and time.Duration(f) of a float64 f is the truncation of f
\* toward zero.
\* ------------------------------------------------------------------------

\* a / b of Go integers: the quotient truncated toward zero
Quot(a, b) == IF a >= 0 THEN a \div b ELSE -((-a) \div b)

RECURSIVE insertSorted(_, _)
insertSorted(x, q) ==
    IF q = <<>> THEN <<x>>
    ELSE IF x <= Head(q) THEN <<x>> \o q
    ELSE <<Head(q)>> \o insertSorted(x, Tail(q))

\* sorted := copy of durations; sort.Slice(sorted, sorted[i] < sorted[j])
RECURSIVE sortSlice(_)
sortSlice(durations) ==
    IF durations = <<>> THEN <<>>
    ELSE insertSorted(Head(durations), sortSlice(Tail(durations)))

RECURSIVE sumOf(_)
sumOf(durations) ==
    IF durations = <<>> THEN 0 ELSE Head(durations) + sumOf(Tail(durations))

\* computeMean: sum / len, an integer division
computeMean(durations) ==
    IF Len(durations) = 0 THEN 0
    ELSE Quot(sumOf(durations), Len(durations))

\* a median that adds the two central elements of an even-length slice
\* and does not halve the sum
computeMedianUnhalved(sorted) ==
    LET n == Len(sorted)
    IN  IF n = 0 THEN 0
        ELSE IF n % 2 = 1 THEN sorted[(n \div 2) + 1]
        ELSE sorted[n \div 2] + sorted[(n \div 2) + 1]

\* computeMedian of a sorted slice (Go indexes from 0)
computeMedian(sorted) ==
    LET n == Len(sorted)
    IN  IF n = 0 THEN 0
        ELSE IF n % 2 = 1 THEN sorted[(n \div 2) + 1]
        ELSE Quot(sorted[n \div 2] + sorted[(n \div 2) + 1], 2)

\* diff := float64(d) - meanFloat, without its sign
deviation(d, mean) ==
    IF (d < 0) = (mean < 0)
    THEN Float64Distance(Float64Of(natOf(IF d < 0 THEN -d ELSE d)),
                         Float64Of(natOf(IF mean < 0 THEN -mean ELSE mean)))
    ELSE Float64Plus(Float64Of(natOf(IF d < 0 THEN -d ELSE d)),
                     Float64Of(natOf(IF mean < 0 THEN -mean ELSE mean)))
squared(diff) == Float64Times(diff, diff)

\* sumSquares += diff * diff over the durations, from the first to the last
RECURSIVE sumSquares(_, _)
sumSquares(durations, mean) ==
    IF durations = <<>> THEN Zero
    ELSE Float64Plus(sumSquares(SubSeq(durations, 1, Len(durations) - 1), mean),
                     squared(deviation(durations[Len(durations)], mean)))

\* a standard deviation that divides by n
computeStdDevPopulation(durations, mean) ==
    IF Len(durations) < 2 THEN 0
    ELSE intOf(Sqrt(Float64Over(sumSquares(durations, mean),
                                Float64Of(natOf(Len(durations))))))

\* computeStdDev: variance := sumSquares / float64(len(durations)-1), with
\* the deviations from the mean it is given; time.Duration(math.Sqrt(variance))
computeStdDev(durations, mean) ==
    IF Len(durations) < 2 THEN 0
    ELSE intOf(Sqrt(Float64Over(sumSquares(durations, mean),
                                Float64Of(natOf(Len(durations) - 1)))))

\* Stats{}
ZeroStats == [Mean |-> 0, Median |-> 0, Min |-> 0, Max |-> 0, StdDev |-> 0]

\* a ComputeStats that has no statistics for fewer than two values
ComputeStatsFromTwo(durations) ==
    IF Len(durations) < 2 THEN ZeroStats
    ELSE LET sorted == sortSlice(durations)
             mean == computeMean(durations)
         IN  [Mean   |-> mean,
              Median |-> computeMedian(sorted),
              Min    |-> sorted[1],
              Max    |-> sorted[Len(sorted)],
              StdDev |-> computeStdDev(durations, mean)]

\* a ComputeStats that takes Min, Max and Median from the slice as given
ComputeStatsUnsorted(durations) ==
    IF Len(durations) = 0 THEN ZeroStats
    ELSE LET mean == computeMean(durations)
         IN  [Mean   |-> mean,
              Median |-> computeMedian(durations),
              Min    |-> durations[1],
              Max    |-> durations[Len(durations)],
              StdDev |-> computeStdDev(durations, mean)]

ComputeStats(durations) ==
    IF Len(durations) = 0 THEN ZeroStats
    ELSE IF Len(durations) = 1
    THEN [Mean |-> durations[1], Median |-> durations[1], Min |-> durations[1],
          Max |-> durations[1], StdDev |-> 0]
    ELSE LET sorted == sortSlice(durations)
             mean == computeMean(durations)
         IN  [Mean   |-> mean,
              Median |-> computeMedian(sorted),
              Min    |-> sorted[1],
              Max    |-> sorted[Len(sorted)],
              StdDev |-> computeStdDev(durations, mean)]

\* a quartile that takes the element below the index and never interpolates
computeQuartileFloor(sorted, percentile) ==
    IF Len(sorted) = 0 THEN 0
    ELSE sorted[((percentile * (Len(sorted) - 1)) \div 100) + 1]

\* computeQuartile; percentile is given in hundredths (25 for 0.25), so
\* index * 100 = percentile * (n - 1), and weight * 100 is its remainder
computeQuartile(sorted, percentile) ==
    IF Len(sorted) = 0 THEN 0
    ELSE LET index100 == percentile * (Len(sorted) - 1)
             lower == index100 \div 100
             weight100 == index100 % 100
             upper == IF weight100 = 0 THEN lower ELSE lower + 1
         IN  IF lower = upper THEN sorted[lower + 1]
             ELSE Quot(sorted[lower + 1] * (100 - weight100)
                       + sorted[upper + 1] * weight100, 100)

\* the positions 1..n of a sequence, in order
positions(q) == [k \in 1..Len(q) |-> k]

\* a detection that flags every element, whatever the length
DetectOutliersEvery(durations) ==
    [k \in 1..Len(durations) |->
        [Index |-> k - 1, Value |-> durations[k],
         Deviation |-> [num |-> 0, den |-> 1]]]

\* a detection that walks the sorted copy and reports the positions in it
DetectOutliersInSorted(durations) ==
    IF Len(durations) < 4 THEN <<>>
    ELSE LET sorted == sortSlice(durations)
             q1 == computeQuartile(sorted, 25)
             q3 == computeQuartile(sorted, 75)
             iqr == q3 - q1
             lowerBound == q1 - Quot(iqr * 3, 2)
             upperBound == q3 + Quot(iqr * 3, 2)
             mean == computeMean(durations)
             isOutlier(k) == sorted[k] < lowerBound \/ sorted[k] > upperBound
             found == SelectSeq(positions(sorted), isOutlier)
         IN  [j \in 1..Len(found) |->
                 [Index |-> found[j] - 1,
                  Value |-> sorted[found[j]],
                  Deviation |-> [num |-> (sorted[found[j]] - mean) * 100,
                                 den |-> mean]]]

\* DetectOutliers.  Outlier.Index is the Go index, from 0.  Deviation is
\* the float64 (d - mean) / mean * 100, kept as numerator and denominator
\* (den = 0: the quotient is +Inf, -Inf or NaN).
DetectOutliers(durations) ==
    IF Len(durations) < 4 THEN <<>>
    ELSE LET sorted == sortSlice(durations)
             q1 == computeQuartile(sorted, 25)
             q3 == computeQuartile(sorted, 75)
             iqr == q3 - q1
             lowerBound == q1 - Quot(iqr * 3, 2)
             upperBound == q3 + Quot(iqr * 3, 2)
             mean == computeMean(durations)
             isOutlier(k) == durations[k] < lowerBound \/ durations[k] > upperBound
             found == SelectSeq(positions(durations), isOutlier)
         IN  [j \in 1..Len(found) |->
                 [Index |-> found[j] - 1,
                  Value |-> durations[found[j]],
                  Deviation |-> [num |-> (durations[found[j]] - mean) * 100,
                                 den |-> mean]]]

\* an exclusion that drops the flagged values wherever they occur
ExcludeOutliersByValue(durations, outliers) ==
    LET values == {outliers[k].Value : k \in 1..Len(outliers)}
        kept(d) == d \notin values
    IN  SelectSeq(durations, kept)

\* ExcludeOutliers
ExcludeOutliers(durations, outliers) ==
    IF Len(outliers) = 0 THEN durations
    ELSE LET outlierIndices == {outliers[k].Index : k \in 1..Len(outliers)}
             kept(k) == (k - 1) \notin outlierIndices
             found == SelectSeq(positions(durations), kept)
         IN  [j \in 1..Len(found) |-> durations[found[j]]]

\* ------------------------------------------------------------------------
\* The statistics functions called on their own, one call in each
\* behaviour, on every duration sequence up to the bounds and on the
\* sequences the documentation names
\* ------------------------------------------------------------------------

ExampleInputs == {<<10, 20, 30>>, <<1, 2, 3, 4, 5, 100>>, <<0, 1, 1, 3, 4, 7>>}

DurationInputs == SeqsUpTo(0..MaxDuration, MaxValues) \cup ExampleInputs

\* durations whose squared deviations sum to more than 2^53, where float64
\* no longer holds every whole number
RoundingInputs == {<<100000000, 286444716>>}

\* the inputs of the reports and of the calls on memory: durations that
\* lie together, and one that can lie far from them
SliceInputs == SeqsUpTo({0, 1, 2, MaxDuration}, MaxValues) \cup ExampleInputs

Reverse(q) == [k \in 1..Len(q) |-> q[Len(q) + 1 - k]]

CallComputeStats ==
    /\ pc = "lib"
    /\ call = NoCall
    /\ \E durations \in DurationInputs \cup RoundingInputs :
         call' = [fn |-> "ComputeStats", args |-> <<durations>>,
                  ret |-> ComputeStats(durations)]
    /\ UNCHANGED <<cfgVars, runVars, passVars, obsVars>>

CallDetectOutliers ==
    /\ pc = "lib"
    /\ call = NoCall
    /\ \E durations \in DurationInputs :
         call' = [fn |-> "DetectOutliers", args |-> <<durations>>,
                  ret |-> DetectOutliers(durations)]
    /\ UNCHANGED <<cfgVars, runVars, passVars, obsVars>>

\* the outliers are those of one column of the samples, the durations are
\* that column or another column of the same samples
CallExcludeOutliers ==
    /\ pc = "lib"
    /\ call = NoCall
    /\ \E column \in DurationInputs :
         \E durations \in {column, Reverse(column)} :
            call' = [fn |-> "ExcludeOutliers",
                     args |-> <<durations, DetectOutliers(column)>>,
                     ret |-> ExcludeOutliers(durations, DetectOutliers(column))]
    /\ UNCHANGED <<cfgVars, runVars, passVars, obsVars>>

NextStats ==
    \/ CallComputeStats
    \/ CallDetectOutliers
    \/ CallExcludeOutliers

SpecStats == InitLib /\ [][NextStats]_vars

\* ------------------------------------------------------------------------
\* The multi-sample reports (cmd/vtrace/root.go).  A report is what the
\* function prints: the heading of the columns and, for every row, the
\* statistics the row is computed from.  excludeOutliers is the package
\* variable the --exclude-outliers flag sets.
\* ------------------------------------------------------------------------

ExtractTotalTTFF(ss) ==
    [k \in 1..Len(ss) |-> ss[k].TotalTTFF]
ExtractDNSLookup(ss) ==
    [k \in 1..Len(ss) |-> ss[k].DNSLookup]
ExtractTCPConnect(ss) ==
    [k \in 1..Len(ss) |-> ss[k].TCPConnect]
ExtractTLSHandshake(ss) ==
    [k \in 1..Len(ss) |-> ss[k].TLSHandshake]
ExtractQUICHandshake(ss) ==
    [k \in 1..Len(ss) |-> ss[k].QUICHandshake]
ExtractManifestTTFB(ss) ==
    [k \in 1..Len(ss) |-> ss[k].ManifestTTFB]
ExtractSegmentTotal(ss) ==
    [k \in 1..Len(ss) |-> ss[k].SegmentTotal]
ExtractFrameDetection(ss) ==
    [k \in 1..Len(ss) |-> ss[k].FrameDetection]

\* printStatRow: the statistics of one row
printStatRow(durations, outliers, excludeOutliers) ==
    LET durationsForStats ==
            IF excludeOutliers /\ Len(outliers) > 0
            THEN ExcludeOutliers(durations, outliers)
            ELSE durations
    IN  ComputeStats(durationsForStats)

\* printMultiSampleResults: the outliers are those of the TotalTTFF column,
\* and every row leaves out the samples at their indices
printMultiSampleResults(ss, excludeOutliers) ==
    LET ttffDurations == ExtractTotalTTFF(ss)
        outliers == DetectOutliers(ttffDurations)
        durationsForStats ==
            IF excludeOutliers /\ Len(outliers) > 0
            THEN ExcludeOutliers(ttffDurations, outliers)
            ELSE ttffDurations
        avgLabel == IF excludeOutliers /\ Len(outliers) > 0 THEN "Avg*" ELSE "Avg"
    IN  [header |-> <<avgLabel, "Min", "Max", "Median", "StdDev">>,
         rows |->
            [DNSLookup      |-> printStatRow(ExtractDNSLookup(ss), outliers, excludeOutliers),
             TCPConnect     |-> printStatRow(ExtractTCPConnect(ss), outliers, excludeOutliers),
             TLSHandshake   |-> printStatRow(ExtractTLSHandshake(ss), outliers, excludeOutliers),
             ManifestTTFB   |-> printStatRow(ExtractManifestTTFB(ss), outliers, excludeOutliers),
             SegmentTotal   |-> printStatRow(ExtractSegmentTotal(ss), outliers, excludeOutliers),
             FrameDetection |-> printStatRow(ExtractFrameDetection(ss), outliers, excludeOutliers),
             TotalTTFF      |-> ComputeStats(durationsForStats)],
         note |-> IF Len(outliers) = 0 THEN "none"
                  ELSE IF excludeOutliers THEN "* Outliers excluded from average: "
                  ELSE "Outliers detected: ",
         outliers |-> outliers]

\* printMultiSampleTTFFComparisonResults: one mean per stack and row; a
\* stack that has no such phase prints N/A
printMultiSampleTTFFComparisonResults(ss12, ss3) ==
    LET delta(http12, http3) ==
            [http12 |-> http12, http3 |-> http3, delta |-> http3 - http12]
        both(http12, http3) ==
            delta(ComputeStats(http12).Mean, ComputeStats(http3).Mean)
    IN  [header |-> <<"HTTP/1.1-2", "HTTP/3", "Delta">>,
         rows |->
            [DNSLookup      |-> both(ExtractDNSLookup(ss12),
                                     ExtractDNSLookup(ss3)),
             TCPConnect     |-> [http12 |-> ComputeStats(ExtractTCPConnect(ss12)).Mean,
                                 http3 |-> "N/A", delta |-> "N/A"],
             TLSHandshake   |-> [http12 |-> ComputeStats(ExtractTLSHandshake(ss12)).Mean,
                                 http3 |-> "N/A", delta |-> "N/A"],
             QUICHandshake  |-> [http12 |-> "N/A",
                                 http3 |-> ComputeStats(ExtractQUICHandshake(ss3)).Mean,
                                 delta |-> "N/A"],
             ManifestTTFB   |-> both(ExtractManifestTTFB(ss12),
                                     ExtractManifestTTFB(ss3)),
             SegmentTotal   |-> both(ExtractSegmentTotal(ss12),
                                     ExtractSegmentTotal(ss3)),
             FrameDetection |-> both(ExtractFrameDetection(ss12),
                                     ExtractFrameDetection(ss3)),
             TotalTTFF      |-> both(ExtractTotalTTFF(ss12),
                                     ExtractTotalTTFF(ss3))]]

\* The samples of a run whose segment downloads took the durations of
\* segment and whose name lookups took those of lookup: TotalTTFF is
\* ManifestTotal + SegmentTotal + FrameDetection as measureTTFF and
\* measureTTFFHTTP3 assemble it.
SamplesOf(stackName, segment, lookup) ==
    [k \in 1..Len(segment) |->
        [DNSLookup      |-> lookup[k],
         TCPConnect     |-> IF stackName = "http12" THEN 1 ELSE 0,
         TLSHandshake   |-> IF stackName = "http12" THEN 1 ELSE 0,
         QUICHandshake  |-> IF stackName = "http3" THEN 2 ELSE 0,
         ManifestTTFB   |-> 1,
         ManifestTotal  |-> 1,
         SegmentTotal   |-> segment[k],
         FrameDetection |-> 1,
         TotalTTFF      |-> 1 + segment[k] + 1]]

\* a run prints a multi-sample report when it took more than one sample
ReportInputs == {q \in SliceInputs : Len(q) > 1}

CallPrintMultiSampleResults ==
    /\ pc = "lib"
    /\ call = NoCall
    /\ \E segment \in ReportInputs, excludeOutliers \in BOOLEAN :
         LET ss == SamplesOf("http12", segment, Reverse(segment))
         IN  call' = [fn |-> "printMultiSampleResults",
                      args |-> <<ss>>,
                      excludeOutliers |-> excludeOutliers,
                      ret |-> printMultiSampleResults(ss, excludeOutliers)]
    /\ UNCHANGED <<cfgVars, runVars, passVars, obsVars>>

CallPrintMultiSampleTTFFComparisonResults ==
    /\ pc = "lib"
    /\ call = NoCall
    /\ \E segment \in ReportInputs, excludeOutliers \in BOOLEAN :
         LET ss12 == SamplesOf("http12", segment, Reverse(segment))
             ss3 == SamplesOf("http3", Reverse(segment), segment)
         IN  call' = [fn |-> "printMultiSampleTTFFComparisonResults",
                      args |-> <<ss12, ss3>>,
                      excludeOutliers |-> excludeOutliers,
                      ret |-> printMultiSampleTTFFComparisonResults(ss12,
                                                                    ss3)]
    /\ UNCHANGED <<cfgVars, runVars, passVars, obsVars>>

NextReport ==
    \/ CallPrintMultiSampleResults
    \/ CallPrintMultiSampleTTFFComparisonResults

SpecReport == InitLib /\ [][NextReport]_vars

\* ------------------------------------------------------------------------
\* The statistics functions on memory (internal/stats/stats.go).  A caller
\* holds a slice and calls the functions on it one after another.  heap is
\* the sequence of the backing arrays that are reachable; a slice is a
\* pointer into heap and a length.  The package has no variables: all that
\* one call can leave behind for the next is what it wrote to an array.
\* ------------------------------------------------------------------------

MaxCalls == 3

\* the elements of a slice
View(heap, slice) == SubSeq(heap[slice.ptr], 1, slice.len)

\* the array after the elements values were written to its front
Written(array, values) ==
    [k \in 1..Len(array) |-> IF k <= Len(values) THEN values[k] ELSE array[k]]

\* a ComputeStats that sorts the slice it is given
ComputeStatsInPlace(heap, durations) ==
    LET given == View(heap, durations)
    IN  [heap |-> IF Len(given) < 2 THEN heap
                  ELSE [heap EXCEPT ![durations.ptr] = Written(@, sortSlice(given))],
         ret |-> ComputeStats(given)]

\* ComputeStats: sorted is made, filled by copy and sorted (stats.go:54-58);
\* it is unreachable once the call returns
ComputeStatsOn(heap, durations) ==
    LET given == View(heap, durations)
        made == IF Len(given) < 2 THEN heap ELSE Append(heap, sortSlice(given))
    IN  [heap |-> SubSeq(made, 1, Len(heap)),
         ret |-> ComputeStats(given)]

\* DetectOutliers: sorted is made, filled by copy and sorted
\* (stats.go:131-135); the outliers are a new slice
DetectOutliersOn(heap, durations) ==
    LET given == View(heap, durations)
        made == IF Len(given) < 4 THEN heap ELSE Append(heap, sortSlice(given))
    IN  [heap |-> SubSeq(made, 1, Len(heap)),
         ret |-> DetectOutliers(given)]

\* an ExcludeOutliers that filters into the array it was given
\* (filtered := durations[:0])
ExcludeOutliersInPlace(heap, durations, outliers) ==
    LET given == View(heap, durations)
        filtered == ExcludeOutliers(given, outliers)
    IN  IF Len(outliers) = 0 THEN [heap |-> heap, ret |-> durations]
        ELSE [heap |-> [heap EXCEPT ![durations.ptr] = Written(@, filtered)],
              ret |-> [ptr |-> durations.ptr, len |-> Len(filtered)]]

\* ExcludeOutliers: without outliers the result is the slice that was given
\* (stats.go:184-186); otherwise filtered starts nil and append makes its
\* array (stats.go:194-200)
ExcludeOutliersOn(heap, durations, outliers) ==
    LET given == View(heap, durations)
        filtered == ExcludeOutliers(given, outliers)
    IN  IF Len(outliers) = 0 THEN [heap |-> heap, ret |-> durations]
        ELSE [heap |-> Append(heap, filtered),
              ret |-> [ptr |-> Len(heap) + 1, len |-> Len(filtered)]]

\* ComputeStats(ExcludeOutliers(s, DetectOutliers(s))): the filtered slice
\* is unreachable once the Stats are returned
AdjustedStatsOn(heap, s) ==
    LET detected == DetectOutliersOn(heap, s)
        excluded == ExcludeOutliersOn(detected.heap, s, detected.ret)
        computed == ComputeStatsOn(excluded.heap, excluded.ret)
    IN  [heap |-> SubSeq(computed.heap, 1, Len(heap)),
         ret |-> computed.ret]

\* the caller's slice is the first array
Caller(input) == [ptr |-> 1, len |-> Len(input)]

\* the caller fills its slice
MakeInput ==
    /\ pc = "lib"
    /\ call = NoCall
    /\ \E input \in SliceInputs :
         call' = [fn |-> "calls", input |-> input, heap |-> <<input>>,
                  outliers |-> <<>>, filtered |-> <<>>, stats |-> <<>>,
                  adjusted |-> <<>>, log |-> <<>>]
    /\ UNCHANGED <<cfgVars, runVars, passVars, obsVars>>

Calling ==
    /\ pc = "lib"
    /\ call.fn = "calls"
    /\ Len(call.log) < MaxCalls

\* the slices the caller holds: its input and the last filtered slice;
\* outliers and filtered hold the last result, if there is one
Held == {Caller(call.input)} \cup {call.filtered[k] : k \in 1..Len(call.filtered)}

DoComputeStats ==
    /\ Calling
    /\ \E durations \in Held :
         LET done == ComputeStatsOn(call.heap, durations)
         IN  call' = [call EXCEPT !.heap = done.heap,
                                  !.stats = <<done.ret>>,
                                  !.log = Append(@, "ComputeStats")]
    /\ UNCHANGED <<cfgVars, runVars, passVars, obsVars>>

DoDetectOutliers ==
    /\ Calling
    /\ LET done == DetectOutliersOn(call.heap, Caller(call.input))
       IN  call' = [call EXCEPT !.heap = done.heap,
                                !.outliers = <<done.ret>>,
                                !.log = Append(@, "DetectOutliers")]
    /\ UNCHANGED <<cfgVars, runVars, passVars, obsVars>>

\* the caller keeps the filtered slice in place of the one it had
DoExcludeOutliers ==
    /\ Calling
    /\ call.outliers # <<>>
    /\ LET done == ExcludeOutliersOn(<<call.heap[1]>>, Caller(call.input), call.outliers[1])
       IN  call' = [call EXCEPT !.heap = done.heap,
                                !.filtered = <<done.ret>>,
                                !.log = Append(@, "ExcludeOutliers")]
    /\ UNCHANGED <<cfgVars, runVars, passVars, obsVars>>

DoAdjustedStats ==
    /\ Calling
    /\ LET done == AdjustedStatsOn(call.heap, Caller(call.input))
       IN  call' = [call EXCEPT !.heap = done.heap,
                                !.adjusted = Append(@, done.ret),
                                !.log = Append(@, "AdjustedStats")]
    /\ UNCHANGED <<cfgVars, runVars, passVars, obsVars>>

NextCalls ==
    \/ MakeInput
    \/ DoComputeStats
    \/ DoDetectOutliers
    \/ DoExcludeOutliers
    \/ DoAdjustedStats

SpecCalls == InitLib /\ [][NextCalls]_vars

\* ------------------------------------------------------------------------
\* The deadline of a pass (measureTTFF, measureTTFFHTTP3 in
\* cmd/vtrace/root.go; DetectFirstFrame in the decoder).  A pass makes one
\* context with a timeout and hands it to every fetch and to the detector.
\* Time is counted from the start of the pass.
\* ------------------------------------------------------------------------

MaxTimeout == 3

\* ctx, cancel := context.WithTimeout(context.Background(), timeout)
WithTimeout(now, timeout) == [deadline |-> now + timeout]

\* ctx.Done() is closed
Done(ctx, now) == now >= ctx.deadline

\* a request made with the context: the answer the network gives, or the
\* context's error once the context is done
Do(ctx, now, answer) ==
    IF Done(ctx, now) THEN "context deadline exceeded" ELSE answer

\* an ffprobe that is started without the context and runs to its end
cmdRunToEnd(ctx, now, env) == env

\* cmd.Run() of exec.CommandContext(ctx, "ffprobe", ...): the process is
\* killed when the context is done while it runs, and Run returns an error
cmdRun(ctx, now, env) ==
    IF env.found /\ Done(ctx, now) THEN [env EXCEPT !.runErr = TRUE] ELSE env

PassFns == {"measureTTFF", "measureTTFFHTTP3"}

BeginPass ==
    /\ pc = "lib"
    /\ call = NoCall
    /\ \E fn \in PassFns, timeout \in 1..MaxTimeout :
         call' = [fn |-> fn, timeout |-> timeout, ctx |-> WithTimeout(0, timeout),
                  at |-> "FetchPlaylist", clock |-> 0, reached |-> "none",
                  log |-> <<>>, err |-> "", sampled |-> FALSE,
                  frameDetection |-> 0]
    /\ UNCHANGED <<cfgVars, runVars, passVars, obsVars>>

InPassCall == pc = "lib" /\ call.fn \in PassFns

Running(stage) == InPassCall /\ call.at = stage

PassStages == {"FetchPlaylist", "FetchMediaPlaylist", "DownloadSegment", "DetectFirstFrame"}

\* time passes while a fetch or the detector runs; reached is the stage that
\* was running when the deadline came
PassTick ==
    /\ InPassCall
    /\ call.at \in PassStages
    /\ ~Done(call.ctx, call.clock)
    /\ call' = [call EXCEPT !.clock = @ + 1,
                            !.reached = IF Done(call.ctx, call.clock + 1)
                                        THEN call.at ELSE @]
    /\ UNCHANGED <<cfgVars, runVars, passVars, obsVars>>

\* the pass after the stage it was in returned failure, or went on to next
Returned(failure, next) ==
    [call EXCEPT !.log = Append(@, [stage |-> call.at, end |-> call.clock, err |-> failure]),
                 !.err = failure,
                 !.at = IF failure = "" THEN next ELSE "failed"]

FetchAnswers == {"", "request failed"}

\* probe.FetchPlaylist(ctx, url, client): the playlist is a master or a
\* media playlist
FetchPlaylistReturns ==
    /\ Running("FetchPlaylist")
    /\ \E answer \in FetchAnswers, master \in BOOLEAN :
         call' = Returned(Do(call.ctx, call.clock, answer),
                          IF master THEN "FetchMediaPlaylist" ELSE "DownloadSegment")
    /\ UNCHANGED <<cfgVars, runVars, passVars, obsVars>>

\* probe.FetchPlaylist(ctx, variantURL, client)
FetchMediaPlaylistReturns ==
    /\ Running("FetchMediaPlaylist")
    /\ \E answer \in FetchAnswers :
         call' = Returned(Do(call.ctx, call.clock, answer), "DownloadSegment")
    /\ UNCHANGED <<cfgVars, runVars, passVars, obsVars>>

\* probe.DownloadSegment(ctx, segmentURL, client)
DownloadSegmentReturns ==
    /\ Running("DownloadSegment")
    /\ \E answer \in FetchAnswers :
         call' = Returned(Do(call.ctx, call.clock, answer), "DetectFirstFrame")
    /\ UNCHANGED <<cfgVars, runVars, passVars, obsVars>>

\* decoder.DetectFirstFrame(ctx, segmentData), and the Sample when it
\* returned no error.  An ffprobe that is not in PATH is not started: the
\* call returns at once.
DetectFirstFrameReturns ==
    /\ Running("DetectFirstFrame")
    /\ \E env \in DetectOutcomes :
         /\ ~env.found => call.clock = call.log[Len(call.log)].end
         /\ LET detected == DetectFirstFrame(cmdRun(call.ctx, call.clock, env))
            IN  call' = [Returned(detected.err, "assembled")
                            EXCEPT !.sampled = (detected.err = ""),
                                   !.frameDetection = detected.elapsed]
    /\ UNCHANGED <<cfgVars, runVars, passVars, obsVars>>

NextPass ==
    \/ BeginPass
    \/ PassTick
    \/ FetchPlaylistReturns
    \/ FetchMediaPlaylistReturns
    \/ DownloadSegmentReturns
    \/ DetectFirstFrameReturns

SpecPass == InitLib /\ [][NextPass]_vars

\* ------------------------------------------------------------------------
\* One traced fetch, callback by callback (internal/probe/trace.go).  The
\* HTTP library calls the httptrace callbacks while client.Do runs; each
\* callback stamps the clock into its field, a later call of the same
\* callback overwrites the earlier stamp.  call holds the fetch: which
\* function runs, where it stands, the clock, the timestamps, the Trace it
\* returned and the time at which the caller finished reading the body.
\* ------------------------------------------------------------------------

\* the zero traceState
traceState ==
    [start |-> 0, dnsStart |-> 0, dnsDone |-> 0, connectStart |-> 0,
     connectDone |-> 0, tlsHandshakeStart |-> 0, tlsHandshakeDone |-> 0,
     firstByte |-> 0]

\* the zero http3TraceState
http3TraceState ==
    [start |-> 0, dnsStart |-> 0, dnsDone |-> 0, gotConn |-> 0, firstByte |-> 0]

InitTrace ==
    /\ tool = "vtrace"
    /\ samples = 1
    /\ delay = Seconds(DefaultDelay)
    /\ delayRandom = <<>>
    /\ compare = FALSE
    /\ ffprobe = TRUE
    /\ pc = "trace"
    /\ minDelay = ZeroDuration
    /\ maxDelay = ZeroDuration
    /\ i = 0
    /\ stack = "http12"
    /\ allSamples = <<>>
    /\ http3Samples = <<>>
    /\ sleepDuration = ZeroDuration
    /\ err = NoErr
    /\ reported = "none"
    /\ idleConn = {}
    /\ FreshPass
    /\ sample = ZeroFor(tool)
    /\ stages = <<>>
    /\ fetches = <<>>
    /\ passes = 0
    /\ sleeps = 0
    /\ requested = FALSE
    /\ requestFailed = FALSE
    /\ call = [fn |-> "none", at |-> "idle", clock |-> 1, state |-> traceState,
               trace |-> Nil, bodyDone |-> 0]

traceFrame == <<cfgVars, runVars, passVars, obsVars>>

\* state := &traceState{} ... state.start = time.Now(), client.Do begins
BeginFetch ==
    /\ pc = "trace"
    /\ call.at = "idle"
    /\ \E fn \in {"FetchWithTrace", "FetchWithTraceHTTP3"} :
         call' = [call EXCEPT !.fn = fn, !.at = "do",
                    !.state = [(IF fn = "FetchWithTrace" THEN traceState
                                ELSE http3TraceState) EXCEPT !.start = call.clock]]
    /\ UNCHANGED traceFrame

\* the wall clock moves on while the fetch runs or the body is read
Tick ==
    /\ pc = "trace"
    /\ call.at \in {"do", "returned"}
    /\ call.clock < MaxClock
    /\ call' = [call EXCEPT !.clock = call.clock + 1]
    /\ UNCHANGED traceFrame

BothFetches == {"FetchWithTrace", "FetchWithTraceHTTP3"}

\* client.Do of one of fns is running
Fetching(fns) == pc = "trace" /\ call.at = "do" /\ call.fn \in fns

\* state.f = time.Now()
Stamped(f) == [call EXCEPT !.state[f] = call.clock]

\* The callbacks.  The library calls a done callback only for an attempt
\* whose start callback it has called; it may make several attempts.
DNSStart ==
    /\ Fetching(BothFetches)
    /\ call' = Stamped("dnsStart")
    /\ UNCHANGED traceFrame

DNSDone ==
    /\ Fetching(BothFetches)
    /\ call.state.dnsStart # 0
    /\ call' = Stamped("dnsDone")
    /\ UNCHANGED traceFrame

ConnectStart ==
    /\ Fetching({"FetchWithTrace"})
    /\ call' = Stamped("connectStart")
    /\ UNCHANGED traceFrame

ConnectDone ==
    /\ Fetching({"FetchWithTrace"})
    /\ call.state.connectStart # 0
    /\ call' = Stamped("connectDone")
    /\ UNCHANGED traceFrame

TLSHandshakeStart ==
    /\ Fetching({"FetchWithTrace"})
    /\ call' = Stamped("tlsHandshakeStart")
    /\ UNCHANGED traceFrame

TLSHandshakeDone ==
    /\ Fetching({"FetchWithTrace"})
    /\ call.state.tlsHandshakeStart # 0
    /\ call' = Stamped("tlsHandshakeDone")
    /\ UNCHANGED traceFrame

GotConn ==
    /\ Fetching({"FetchWithTraceHTTP3"})
    /\ call' = Stamped("gotConn")
    /\ UNCHANGED traceFrame

GotFirstResponseByte ==
    /\ Fetching(BothFetches)
    /\ call' = Stamped("firstByte")
    /\ UNCHANGED traceFrame

\* client.Do returns: an error, or the response headers, and then
\* trace := buildTrace(state)
DoReturns ==
    /\ pc = "trace"
    /\ call.at = "do"
    /\ \E ok \in BOOLEAN :
         call' = IF ~ok THEN [call EXCEPT !.at = "failed"]
                 ELSE [call EXCEPT !.at = "returned",
                         !.trace = IF call.fn = "FetchWithTrace"
                                   THEN buildTrace(call.state, call.clock)
                                   ELSE buildHTTP3Trace(call.state, call.clock)]
    /\ UNCHANGED traceFrame

\* the caller has the Trace and now reads the body to its end
\* (io.ReadAll(resp.Body) in DownloadSegment)
ReadBody ==
    /\ pc = "trace"
    /\ call.at = "returned"
    /\ call' = [call EXCEPT !.at = "read", !.bodyDone = call.clock]
    /\ UNCHANGED traceFrame

NextTrace ==
    \/ BeginFetch
    \/ Tick
    \/ DNSStart
    \/ DNSDone
    \/ ConnectStart
    \/ ConnectDone
    \/ TLSHandshakeStart
    \/ TLSHandshakeDone
    \/ GotConn
    \/ GotFirstResponseByte
    \/ DoReturns
    \/ ReadBody

SpecTrace == InitTrace /\ [][NextTrace]_vars

\* ------------------------------------------------------------------------
\* Properties
\* ------------------------------------------------------------------------

IsPrefix(a, b) == Len(a) <= Len(b) /\ SubSeq(b, 1, Len(a)) = a

Last(q) == q[Len(q)]

\* the two orders in which a pass may run its stages
DirectOrder ==
    <<"FetchManifest", "ResolveFirstSegment", "FetchSegment",
      "DetectContentValidity", "AssembleSample">>
RedirectOrder ==
    <<"FetchManifest", "ResolveVariant", "FetchVariantManifest",
      "ResolveFirstSegment", "FetchSegment", "DetectContentValidity",
      "AssembleSample">>

StageNames == {RedirectOrder[k] : k \in 1..Len(RedirectOrder)}

\* a pass of vtrace has assembled its sample and not yet returned it
PassAssembled == tool = "vtrace" /\ pc = "collect"

\* the pass went through a variant index
Redirected == Len(fetches) >= 2 /\ fetches[2].stage = "FetchVariantManifest"

\* the request answered a playlist of kind k
Answered(req, k) == req.status = StatusOK /\ req.body.kind = k

\* C1: in a pass whose first manifest is a variant index, the phase fields
\* of the Sample come from the fetch of the leaf manifest (result.Trace after
\* the redirection), and Total = leaf manifest Total + segment Total +
\* detection duration.
C1_PhasesFromLeafManifest ==
    (PassAssembled /\ Redirected) =>
        /\ sample.DNSLookup = result.Trace.DNSLookup
        /\ sample.TCPConnect = result.Trace.TCPConnect
        /\ sample.TLSHandshake = result.Trace.TLSHandshake
        /\ sample.QUICHandshake = result.Trace.QUICHandshake
        /\ sample.ManifestTTFB = result.Trace.TTFB
        /\ sample.ManifestTotal = result.Trace.Total
        /\ sample.TotalTTFF = result.Trace.Total + segmentTrace.Total + frameDetection

\* C2: the stages of a pass run in the order FetchManifest, (ResolveVariant,
\* FetchVariantManifest exactly when the first manifest is a variant index),
\* ResolveFirstSegment, FetchSegment, DetectContentValidity, AssembleSample;
\* the stage about to run is the successor of the stages run; a failed pass
\* stopped at the failing stage, which is not followed by any stage, and it
\* left no Sample: the returned Sample is the zero value and no list grew.
C2_StageOrder ==
    tool = "vtrace" =>
        /\ IsPrefix(stages, DirectOrder) \/ IsPrefix(stages, RedirectOrder)
        /\ Len(stages) >= 2 =>
               (stages[2] = "ResolveVariant" <=> Answered(fetches[1], "MASTER"))
        /\ (pc \in StageNames /\ pc # "FetchManifest") =>
               /\ stages # <<>>
               /\ \/ IsPrefix(Append(stages, pc), DirectOrder)
                  \/ IsPrefix(Append(stages, pc), RedirectOrder)
        /\ sample # ZeroSample => stages \in {DirectOrder, RedirectOrder}
        /\ err.kind = "pass" =>
               /\ pc = "failed"
               /\ stages # <<>>
               /\ Last(stages) = err.stage
               /\ err.stage # "AssembleSample"
               /\ sample = ZeroSample
               /\ Len(allSamples) + Len(http3Samples) = passes - 1

\* a pass that went through a variant index and failed to fetch the segment
C2_Witness ==
    /\ tool = "vtrace"
    /\ pc = "failed"
    /\ err.stage = "FetchSegment"
    /\ stages = SubSeq(RedirectOrder, 1, 5)

\* the number of the pass being run within its sample loop, from 1
PassInLoop == IF stack = "http3" THEN passes - samples ELSE passes

\* C3 (state part): when pass k of a multi-sample run fails, the error names
\* k, the k-1 samples collected are not reported and no later pass has
\* started; a report is printed only with exactly N samples per list.
C3_State ==
    /\ (err.kind = "pass" /\ samples > 1) =>
           /\ err.index = PassInLoop
           /\ err.index = 1 + Len(IF stack = "http3" THEN http3Samples ELSE allSamples)
           /\ reported = "none"
           /\ pc = "failed"
    /\ pc = "failed" => reported = "none"
    /\ reported # "none" =>
           /\ err = NoErr
           /\ Len(allSamples) = samples
           /\ Len(http3Samples) = IF compare THEN samples ELSE 0

\* C3 (order part): a list of samples changes only by the sample of the
\* pass that just ended being put at its end.
C3_Order ==
    /\ allSamples' # allSamples => allSamples' = Append(allSamples, sample)
    /\ http3Samples' # http3Samples => http3Samples' = Append(http3Samples, sample)

\* C3: a failing pass k of a multi-sample run ends the run with an error
\* naming k and without a report; a report is printed only when exactly N
\* samples were collected, kept in the order in which they were measured.
C3_FailingPassAbortsRun == [](C3_State) /\ [][C3_Order]_vars

\* the second pass of a plain two-sample run failed
C3_Witness ==
    /\ ~compare
    /\ samples = 2
    /\ pc = "failed"
    /\ err.kind = "pass"
    /\ err.index = 2
    /\ Len(allSamples) = 1

\* C4: with a delay range configured, every inter-sample wait lies within
\* [min, max] (so the fixed delay is not used), for every accepted range.
C4_DelayWithinRange ==
    (pc = "sleep" /\ delayRandom # <<>>) =>
        /\ ~Less(sleepDuration, minDelay)
        /\ ~Less(maxDelay, sleepDuration)

\* a pass has started and has not returned to the sample loop
InPass == pc \in (StageNames \ {"FetchManifest"}) \cup {"collect"}

\* a pass that is not the first of the run is about to start
NextPassDue == pc = FirstStage /\ passes > 0

\* C5 as stated: in every mode a sleep precedes every pass but the first
\* and none follows the last: while a pass runs and when the run is done
\* the sleeps made are one fewer than the passes started.
C5_SleepBetweenAllPasses ==
    /\ NextPassDue => sleeps = passes
    /\ (InPass \/ pc = "done") => sleeps = passes - 1

\* C5 as amended: a sleep separates two consecutive passes of the same
\* sample loop and none follows the last pass of a loop: a plain run of N
\* passes sleeps N-1 times; a comparative run of 2N passes sleeps 2(N-1)
\* times, with no sleep between the last HTTP/1.1-2 pass and the first
\* HTTP/3 pass.
C5_SleepBetweenLoopPasses ==
    /\ NextPassDue => sleeps = passes - (IF stack = "http3" THEN 1 ELSE 0)
    /\ NextPassDue => (sleeps = passes <=> stack = "http12")
    /\ (InPass \/ pc = "sleep") =>
           sleeps = passes - 1 - (IF stack = "http3" THEN 1 ELSE 0)
    /\ pc = "done" =>
           /\ passes = IF compare THEN 2 * samples ELSE samples
           /\ sleeps = IF compare THEN 2 * (samples - 1) ELSE samples - 1

\* a comparative run of two samples per stack has ended
C5_Witness ==
    /\ pc = "done"
    /\ compare
    /\ samples = 2
    /\ passes = 4
    /\ sleeps = 2

\* values of --delay-random that are not a range <min>-<max> with min <= max
MalformedRanges ==
    {<<"2", "s", "-", "1", "s">>,
     <<"1", "0", "0", "1", "m", "s", "-", "1", "s">>,
     <<"1", "s">>,
     <<"1", "s", "-", "x">>,
     <<"x", "-", "1", "s">>,
     <<"1", "s", "-", "2", "s", "-", "3", "s">>,
     \* a maximum of two groups of 2^63 ns, whose uint64 sum is 0
     <<"1", "n", "s", "-", "9", "2", "2", "3", "3", "7", "2", "0", "3", "6",
       "8", "5", "4", "7", "7", "5", "8", "0", "8", "n", "s", "9", "2", "2",
       "3", "3", "7", "2", "0", "3", "6", "8", "5", "4", "7", "7", "5", "8",
       "0", "8", "n", "s">>}

BadFlags == samples < 1 \/ delayRandom \in MalformedRanges

\* C6: with a sample count below 1 or a malformed delay range the run ends
\* with a configuration error and no network request is ever issued.
C6_ConfigErrorBeforeNetwork ==
    /\ BadFlags =>
           /\ ~requested
           /\ passes = 0
           /\ pc \in {"run", "failed"}
           /\ pc = "failed" => err.kind \in {"config", "ffprobe"}
    /\ err.kind = "config" =>
           /\ BadFlags
           /\ ~requested
           /\ pc = "failed"

\* a range with min > max was rejected
C6_Witness ==
    /\ pc = "failed"
    /\ err.kind = "config"
    /\ samples = 2
    /\ delayRandom = <<"2", "s", "-", "1", "s">>

Usable(seg) == seg # Nil /\ seg.URI # <<>>

\* C7: GetFirstSegmentURL resolves the reference of the first entry of the
\* segment list that is not nil and has a non-empty reference; with no
\* manifest or no such entry it fails with ErrNoSegments and returns no URL.
C7_FirstUsableSegment ==
    call.fn = "GetFirstSegmentURL" =>
        LET media == call.args[1]
            base == call.args[2]
        IN  IF media = Nil \/ \A k \in 1..Len(media.Segments) : ~Usable(media.Segments[k])
            THEN call.ret = [err |-> ErrNoSegments, url |-> <<>>]
            ELSE \E k \in 1..Len(media.Segments) :
                     /\ Usable(media.Segments[k])
                     /\ \A j \in 1..(k - 1) : ~Usable(media.Segments[j])
                     /\ call.ret = resolveURL(base, media.Segments[k].URI)
                     /\ call.ret.err # ErrNoSegments

\* two nil entries, an entry without reference, then a valid one
C7_Witness ==
    /\ call.fn = "GetFirstSegmentURL"
    /\ call.args[1] = [Segments |-> <<Nil, EmptySegment, Segment0>>]
    /\ call.ret = [err |-> "", url |-> <<"https://origin", "live", "seg0.ts">>]

\* the manifest requests of the current pass
ManifestFetches ==
    {k \in 1..Len(fetches) : fetches[k].stage \in {"FetchManifest", "FetchVariantManifest"}}

\* C8: a pass fetches at most two manifests: the one at the --url and, when
\* that is a variant index, its first listed variant; a variant index found
\* behind the variant index is not followed.
C8_OneRedirection ==
    tool = "vtrace" =>
        /\ Cardinality(ManifestFetches) <= 2
        /\ fetches # <<>> => (fetches[1].stage = "FetchManifest" /\ fetches[1].url = url)
        /\ Redirected =>
               /\ Answered(fetches[1], "MASTER")
               /\ LET first == fetches[1].body.playlist.Variants[1].URI
                  IN  fetches[2].url = IF IsAbsolute(first) THEN first
                                       ELSE <<"https://origin", "live">> \o first
        /\ \A k \in 3..Len(fetches) : fetches[k].stage = "FetchSegment"

\* the manifest behind the variant index was a variant index again: the
\* pass ended there
C8_Witness ==
    /\ tool = "vtrace"
    /\ Redirected
    /\ Answered(fetches[2], "MASTER")
    /\ fetches[2].body.playlist.Variants # <<>>
    /\ pc = "failed"
    /\ err.cause = ErrNoSegments
    /\ Len(fetches) = 2

\* C9: no stage issues a second request, and once a request has failed the
\* run is over: the failed request is the last one issued.
C9_NoRetry ==
    /\ \A a, b \in 1..Len(fetches) : a # b => fetches[a].stage # fetches[b].stage
    /\ Len(fetches) <= Len(stages)
    /\ requestFailed =>
           /\ pc = "failed"
           /\ err.kind = "pass"
           /\ fetches # <<>>
           /\ Last(fetches).stage = err.stage
           /\ reported = "none"

\* the segment request of the first pass of a two-sample run failed
C9_Witness ==
    /\ requestFailed
    /\ pc = "failed"
    /\ err.stage = "FetchSegment"
    /\ samples = 2
    /\ passes = 1
    /\ Len(fetches) = 3

\* C10: no pass builds a sample from a response whose status is not 2xx.
C10_NoSampleFromNon2xx ==
    pc = "collect" =>
        \A k \in 1..Len(fetches) : fetches[k].status \in 200..299

\* ------------------------------------------------------------------------
\* Phase traces
\* ------------------------------------------------------------------------

\* the fetch has returned a Trace
TraceReturned == pc = "trace" /\ call.at \in {"returned", "read"}

\* a phase is zero unless both of its stamps were observed, and is not negative
PhaseOK(dur, from, to) == (from = 0 \/ to = 0 => dur = 0) /\ dur >= 0

\* C11: whatever callbacks fired during a fetch, in whatever order and how
\* often, every phase duration of the returned Trace is zero when its start
\* and end were not both observed, and is never negative.
C11_PhasesZeroOrNonNegative ==
    TraceReturned =>
        LET st == call.state
            tr == call.trace
        IN  /\ PhaseOK(tr.DNSLookup, st.dnsStart, st.dnsDone)
            /\ PhaseOK(tr.TTFB, st.start, st.firstByte)
            /\ IF call.fn = "FetchWithTrace"
               THEN /\ PhaseOK(tr.TCPConnect, st.connectStart, st.connectDone)
                    /\ PhaseOK(tr.TLSHandshake, st.tlsHandshakeStart, st.tlsHandshakeDone)
                    /\ tr.QUICHandshake = 0
               ELSE /\ PhaseOK(tr.QUICHandshake, st.start, st.gotConn)
                    /\ tr.TCPConnect = 0
                    /\ tr.TLSHandshake = 0

\* C12: the Total of a fetch whose body the caller has read to its end is
\* the span from the start of the fetch to the end of the body.
C12_TotalCoversBody ==
    (pc = "trace" /\ call.at = "read") =>
        call.trace.Total = call.bodyDone - call.state.start

\* ------------------------------------------------------------------------
\* Connections
\* ------------------------------------------------------------------------

\* the connection set-up callbacks of the stream transport were called
\* during the fetch that returned trace tr
SetUpTraced(tr) == tr.DNSLookup > 0 /\ tr.TCPConnect > 0 /\ tr.TLSHandshake > 0

\* C13: no fetch of a pass goes over a connection that an earlier fetch
\* opened, and the first manifest fetch of every HTTP/1.1-2 pass shows the
\* set-up of its connection.
C13_FreshConnections ==
    /\ \A k \in 1..Len(fetches) : ~fetches[k].reused
    /\ (stack = "http12" /\ manifestTrace # Nil) => SetUpTraced(manifestTrace)

\* ------------------------------------------------------------------------
\* Samples
\* ------------------------------------------------------------------------

\* the total of Sample s is the sum of its three spans and nothing else
TotalIsSum(s) == s.TotalTTFF = s.ManifestTotal + s.SegmentTotal + s.FrameDetection

\* C14: every Sample a successful pass produces, on either transport stack,
\* has TotalTTFF = ManifestTotal + SegmentTotal + FrameDetection; the phase
\* fields (DNS, connect, handshakes, TTFB) are not part of the sum.
C14_TotalIsSumOfSpans ==
    tool = "vtrace" =>
        /\ pc = "collect" => TotalIsSum(sample)
        /\ \A k \in 1..Len(allSamples) : TotalIsSum(allSamples[k])
        /\ \A k \in 1..Len(http3Samples) : TotalIsSum(http3Samples[k])

\* a comparative run holds an HTTP/1.1-2 Sample and has just assembled an
\* HTTP/3 Sample, both with phases that are not zero
C14_Witness ==
    /\ tool = "vtrace"
    /\ pc = "collect"
    /\ stack = "http3"
    /\ sample.QUICHandshake > 0
    /\ sample.ManifestTTFB > 0
    /\ sample.TotalTTFF > sample.FrameDetection
    /\ allSamples # <<>>
    /\ allSamples[1].TCPConnect > 0
    /\ allSamples[1].ManifestTTFB > 0

\* ------------------------------------------------------------------------
\* Duration statistics
\* ------------------------------------------------------------------------

\* the function fn has been called; its argument k and its result
Called(fn) == pc = "lib" /\ call.fn = fn

\* C15: for every non-empty sequence of non-negative durations ComputeStats
\* returns Min <= Median <= Max and Min <= Mean <= Max.
C15_StatsOrdered ==
    (Called("ComputeStats") /\ Len(call.args[1]) >= 1) =>
        LET st == call.ret
        IN  /\ st.Min <= st.Median /\ st.Median <= st.Max
            /\ st.Min <= st.Mean /\ st.Mean <= st.Max

\* ComputeStats of 1, 2, 3, 4, 5, 100: the four statistics are all different
C15_Witness ==
    /\ Called("ComputeStats")
    /\ call.args[1] = <<1, 2, 3, 4, 5, 100>>
    /\ call.ret.Min = 1
    /\ call.ret.Median = 3
    /\ call.ret.Mean = 19
    /\ call.ret.Max = 100

\* C16: ComputeStats of the empty sequence is the all-zero Stats, and of a
\* one-element sequence [x] it is Mean = Median = Min = Max = x, StdDev = 0.
C16_EmptyAndSingle ==
    Called("ComputeStats") =>
        /\ call.args[1] = <<>> => call.ret = ZeroStats
        /\ Len(call.args[1]) = 1 =>
              LET x == call.args[1][1]
              IN  call.ret = [Mean |-> x, Median |-> x, Min |-> x, Max |-> x,
                              StdDev |-> 0]

\* ComputeStats of the one-element sequence [5]
C16_Witness ==
    /\ Called("ComputeStats")
    /\ call.args[1] = <<5>>
    /\ call.ret.Mean = 5
    /\ call.ret.StdDev = 0

\* the elements of q in ascending order: place k holds the value v such
\* that fewer than k elements are below v and at least k are not above v
Ascending(q) ==
    [k \in 1..Len(q) |->
        CHOOSE v \in {q[j] : j \in 1..Len(q)} :
            /\ Cardinality({j \in 1..Len(q) : q[j] < v}) < k
            /\ k <= Cardinality({j \in 1..Len(q) : q[j] <= v})]

\* four times the linear-interpolation quantile of the ascending sequence r
\* at index p/4 * (n - 1), for p = 1 (Q1) and p = 3 (Q3)
Quantile4(r, p) ==
    LET index4 == p * (Len(r) - 1)
        lo == index4 \div 4
        w == index4 % 4
    IN  IF w = 0 THEN 4 * r[lo + 1]
        ELSE (4 - w) * r[lo + 1] + w * r[lo + 2]

\* the Go indexes of the elements of q strictly outside
\* [Q1 - 1.5 * IQR, Q3 + 1.5 * IQR], all of it computed without rounding
\* (compared in eighths)
OutsideExact(q) ==
    LET r == Ascending(q)
        q1 == Quantile4(r, 1)
        q3 == Quantile4(r, 3)
        lower8 == 2 * q1 - 3 * (q3 - q1)
        upper8 == 2 * q3 + 3 * (q3 - q1)
    IN  {k - 1 : k \in {j \in 1..Len(q) : 8 * q[j] < lower8 \/ 8 * q[j] > upper8}}

\* the same with Q1, Q3 and 1.5 * IQR each truncated to a whole duration
OutsideTruncated(q) ==
    LET r == Ascending(q)
        q1 == Quantile4(r, 1) \div 4
        q3 == Quantile4(r, 3) \div 4
        margin == (3 * (q3 - q1)) \div 2
    IN  {k - 1 : k \in {j \in 1..Len(q) : q[j] < q1 - margin \/ q[j] > q3 + margin}}

\* the outliers list exactly the elements of q at the Go indexes idx
Reports(outliers, q, idx) ==
    /\ {outliers[k].Index : k \in 1..Len(outliers)} = idx
    /\ Len(outliers) = Cardinality(idx)
    /\ \A k \in 1..Len(outliers) : outliers[k].Value = q[outliers[k].Index + 1]

\* C17 as stated: for n >= 4 DetectOutliers reports exactly the elements
\* strictly outside [Q1 - 1.5 * IQR, Q3 + 1.5 * IQR], Q1 and Q3 being the
\* linear-interpolation quantiles.
C17_OutliersOutsideExactBounds ==
    (Called("DetectOutliers") /\ Len(call.args[1]) >= 4) =>
        Reports(call.ret, call.args[1], OutsideExact(call.args[1]))

\* C17: for n >= 4 DetectOutliers reports exactly the elements strictly
\* outside [Q1 - M, Q3 + M], where Q1 and Q3 are the linear-interpolation
\* quantiles truncated to a whole duration and M is 1.5 * (Q3 - Q1)
\* truncated to a whole duration.
C17_OutliersOutsideTruncatedBounds ==
    (Called("DetectOutliers") /\ Len(call.args[1]) >= 4) =>
        Reports(call.ret, call.args[1], OutsideTruncated(call.args[1]))

\* DetectOutliers of 1, 2, 3, 4, 5, 100 reports 100 and nothing else
C17_Witness ==
    /\ Called("DetectOutliers")
    /\ call.args[1] = <<1, 2, 3, 4, 5, 100>>
    /\ Len(call.ret) = 1
    /\ call.ret[1].Value = 100

\* C18: DetectOutliers of fewer than 4 values is empty.
C18_NoOutliersBelowFour ==
    (Called("DetectOutliers") /\ Len(call.args[1]) < 4) => call.ret = <<>>

\* DetectOutliers of three values one of which is far from the others
C18_Witness ==
    /\ Called("DetectOutliers")
    /\ call.args[1] = <<0, 6, 0>>
    /\ call.ret = <<>>

\* the j-th smallest element of the set of numbers S
Nth(S, j) == CHOOSE p \in S : Cardinality({q \in S : q < p}) = j - 1

\* C19: ExcludeOutliers(s, outliers) is s without the positions that
\* outliers flags, in the original order; its length is
\* len(s) - len(outliers); with no outliers it is s.
C19_ExcludeKeepsOrder ==
    Called("ExcludeOutliers") =>
        LET sq == call.args[1]
            outliers == call.args[2]
            flagged == {outliers[k].Index + 1 : k \in 1..Len(outliers)}
            kept == (1..Len(sq)) \ flagged
        IN  /\ Len(call.ret) = Cardinality(kept)
            /\ \A j \in 1..Len(call.ret) : call.ret[j] = sq[Nth(kept, j)]
            /\ Len(call.ret) = Len(sq) - Len(outliers)
            /\ outliers = <<>> => call.ret = sq

\* the outlier of 1, 2, 3, 4, 5, 100 is at index 5; excluded from the
\* column 100, 5, 4, 3, 2, 1 it removes the 1 and keeps the 100
C19_Witness ==
    /\ Called("ExcludeOutliers")
    /\ call.args[1] = <<100, 5, 4, 3, 2, 1>>
    /\ Len(call.args[2]) = 1
    /\ call.args[2][1].Index = 5
    /\ call.ret = <<100, 5, 4, 3, 2>>

\* the counts of a sequence, summed
RECURSIVE total(_)
total(counts) ==
    IF counts = <<>> THEN <<>> ELSE plus(Head(counts), total(Tail(counts)), 0)

\* r is the square root of num / den rounded to a whole number, down or up
\* (num and den are counts, r is a duration)
RoundedRoot(r, num, den) ==
    /\ r >= 0
    /\ r = 0 \/ less(times(square(natOf(r - 1)), den), num)
    /\ less(num, times(square(natOf(r + 1)), den))

\* r is the square root of num / den truncated to a whole number
TruncatedRoot(r, num, den) ==
    /\ r >= 0
    /\ ~less(num, times(square(natOf(r)), den))
    /\ less(num, times(square(natOf(r + 1)), den))

\* n * (n - 1) times the sample variance of q: n * sum(d^2) - (sum d)^2
VarianceNumerator(q) ==
    minus(timesSmall(total([k \in 1..Len(q) |-> square(natOf(q[k]))]), Len(q)),
          square(natOf(sumOf(q))))

\* the squared deviations of q from mean, summed
SquaredDeviations(q, mean) ==
    total([k \in 1..Len(q) |->
              square(natOf(IF q[k] < mean THEN mean - q[k] ELSE q[k] - mean))])

\* C20 as stated: for n >= 2 StdDev is the sample standard deviation (the
\* squared deviations from the arithmetic mean, summed, divided by n - 1,
\* square root) rounded to a whole duration, and for 10, 20, 30 it is the
\* square root of 200.
C20_StdDevSqrt200 ==
    (Called("ComputeStats") /\ Len(call.args[1]) >= 2) =>
        LET q == call.args[1]
        IN  /\ RoundedRoot(call.ret.StdDev, VarianceNumerator(q),
                           natOf(Len(q) * (Len(q) - 1)))
            /\ q = <<10, 20, 30>> => RoundedRoot(call.ret.StdDev, natOf(200), <<1>>)

\* C20: for n >= 2 StdDev is the sample standard deviation rounded to a
\* whole duration, less than one unit from the exact value.  It is computed
\* in float64 from the Mean that ComputeStats returns and truncated: while
\* the squared deviations sum to less than 2^49 it is exactly the truncated
\* root of their sum over n - 1, and above that the rounding of float64
\* can carry it to the next whole number (100000000, 286444716 give
\* 131836323, the root being 131836322.999999996).  For 10, 20, 30 it is
\* the square root of 100, that is 10.
C20_StdDevSample ==
    (Called("ComputeStats") /\ Len(call.args[1]) >= 2) =>
        LET q == call.args[1]
        IN  /\ RoundedRoot(call.ret.StdDev, VarianceNumerator(q),
                           natOf(Len(q) * (Len(q) - 1)))
            /\ less(SquaredDeviations(q, call.ret.Mean), shift(<<1>>, 49)) =>
                   TruncatedRoot(call.ret.StdDev,
                                 SquaredDeviations(q, call.ret.Mean),
                                 natOf(Len(q) - 1))
            /\ q = <<10, 20, 30>> => call.ret.StdDev = 10
            /\ q = <<100000000, 286444716>> =>
                   /\ call.ret.StdDev = 131836323
                   /\ TruncatedRoot(call.ret.StdDev - 1,
                                    SquaredDeviations(q, call.ret.Mean),
                                    natOf(Len(q) - 1))

\* ComputeStats of 10, 20, 30
C20_Witness ==
    /\ Called("ComputeStats")
    /\ call.args[1] = <<10, 20, 30>>
    /\ call.ret.Mean = 20
    /\ call.ret.StdDev = 10

\* ------------------------------------------------------------------------
\* The reports and --exclude-outliers
\* ------------------------------------------------------------------------

\* the positions (from 1) of the samples that are outliers of their run
Flagged(ss) ==
    LET outliers == DetectOutliers(ExtractTotalTTFF(ss))
    IN  {outliers[k].Index + 1 : k \in 1..Len(outliers)}

\* the column of one row, and the column without the flagged samples
Column(ss, row) == [k \in 1..Len(ss) |-> ss[k][row]]
Unflagged(column, flagged) ==
    LET kept(k) == k \notin flagged
        found == SelectSeq(positions(column), kept)
    IN  [j \in 1..Len(found) |-> column[found[j]]]

PlainRows ==
    {"DNSLookup", "TCPConnect", "TLSHandshake", "ManifestTTFB", "SegmentTotal",
     "FrameDetection", "TotalTTFF"}

\* the rows of the comparative report that have an average for the stack
ComparisonRows(stackName) ==
    {"DNSLookup", "ManifestTTFB", "SegmentTotal", "FrameDetection", "TotalTTFF"}
        \cup (IF stackName = "http12" THEN {"TCPConnect", "TLSHandshake"}
              ELSE {"QUICHandshake"})

\* the plain report of a run that flagged samples, with exclusion enabled:
\* every average is the mean of the samples that were not flagged and the
\* column is headed Avg*
PlainReportExcludes ==
    (/\ Called("printMultiSampleResults")
     /\ call.excludeOutliers
     /\ Flagged(call.args[1]) # {}) =>
        /\ call.ret.header[1] = "Avg*"
        /\ \A row \in PlainRows :
             call.ret.rows[row].Mean =
                 computeMean(Unflagged(Column(call.args[1], row), Flagged(call.args[1])))

\* the same of the comparative report, for each stack that flagged samples
ComparisonReportExcludes ==
    (/\ Called("printMultiSampleTTFFComparisonResults")
     /\ call.excludeOutliers) =>
        \A s \in 1..2 :
            LET stackName == IF s = 1 THEN "http12" ELSE "http3"
                ss == call.args[s]
            IN  Flagged(ss) # {} =>
                    /\ \E k \in 1..Len(call.ret.header) : call.ret.header[k] = "Avg*"
                    /\ \A row \in ComparisonRows(stackName) :
                         call.ret.rows[row][stackName] =
                             computeMean(Unflagged(Column(ss, row), Flagged(ss)))

\* C21: with outlier exclusion enabled, the samples flagged as outliers are
\* excluded from every average of a report over more than one sample, in
\* every phase row and the total row, of the plain and of the comparative
\* multi-sample report, and the average column is labelled Avg*.
C21_OutliersExcludedFromEveryAverage ==
    /\ PlainReportExcludes
    /\ ComparisonReportExcludes

\* a plain report with exclusion enabled that left a flagged sample out
C21_PlainWitness ==
    /\ Called("printMultiSampleResults")
    /\ call.excludeOutliers
    /\ ExtractSegmentTotal(call.args[1]) = <<1, 2, 3, 4, 5, 100>>
    /\ Flagged(call.args[1]) = {6}
    /\ call.ret.header[1] = "Avg*"
    /\ call.ret.rows.TotalTTFF.Mean = 5

\* a comparative report with exclusion enabled whose total average counts
\* the flagged sample
C21_ComparisonWitness ==
    /\ Called("printMultiSampleTTFFComparisonResults")
    /\ call.excludeOutliers
    /\ ExtractSegmentTotal(call.args[1]) = <<1, 2, 3, 4, 5, 100>>
    /\ Flagged(call.args[1]) = {6}
    /\ call.ret.rows.TotalTTFF.http12 = 21

\* ------------------------------------------------------------------------
\* The statistics functions called one after another
\* ------------------------------------------------------------------------

InCalls == pc = "lib" /\ call.fn = "calls"

\* C22: ComputeStats(ExcludeOutliers(s, DetectOutliers(s))) is
\* deterministic: evaluated on the same s before or after any other calls it
\* yields the same Stats, those that depend on the elements of s alone.
C22_AdjustedStatsDeterministic ==
    InCalls =>
        \A k \in 1..Len(call.adjusted) :
            /\ call.adjusted[k] = call.adjusted[1]
            /\ call.adjusted[k] =
                   ComputeStats(ExcludeOutliers(call.input, DetectOutliers(call.input)))

\* two evaluations on 6, 1, 2, 1, 1, whose first element is an outlier,
\* with a call of ComputeStats between them
C22_Witness ==
    /\ InCalls
    /\ call.input = <<6, 1, 2, 1, 1>>
    /\ call.log = <<"AdjustedStats", "ComputeStats", "AdjustedStats">>
    /\ Len(call.adjusted) = 2
    /\ call.adjusted[2].Max = 2

\* C25: ComputeStats, DetectOutliers and ExcludeOutliers leave the caller's
\* sequence unchanged: after any sequence of calls it has the same elements
\* in the same order as before.
C25_InputUnchanged ==
    InCalls =>
        /\ call.heap[1] = call.input
        /\ View(call.heap, Caller(call.input)) = call.input

\* the three functions were called on 6, 1, 2, 1, 1, which is not sorted and
\* has an outlier, and the filtered slice has an array of its own
C25_Witness ==
    /\ InCalls
    /\ call.input = <<6, 1, 2, 1, 1>>
    /\ call.log = <<"DetectOutliers", "ExcludeOutliers", "ComputeStats">>
    /\ call.filtered = <<[ptr |-> 2, len |-> 4]>>
    /\ call.heap[2] = <<1, 2, 1, 1>>
    /\ call.stats[1].Max = 6

\* ------------------------------------------------------------------------
\* What DetectOutliers reports and what ComputeStats returns
\* ------------------------------------------------------------------------

\* C23: each Outlier carries the position of the element in the input as
\* given (not in the sorted copy) and the value the input has there, and the
\* outliers are listed in strictly increasing index; 100 in
\* 1, 2, 3, 4, 5, 100 is reported with index 5.
C23_OutlierIndexIsOriginal ==
    Called("DetectOutliers") =>
        LET q == call.args[1]
            outliers == call.ret
        IN  /\ \A k \in 1..Len(outliers) :
                 /\ outliers[k].Index \in 0..(Len(q) - 1)
                 /\ outliers[k].Value = q[outliers[k].Index + 1]
            /\ \A j, k \in 1..Len(outliers) :
                 j < k => outliers[j].Index < outliers[k].Index
            /\ q = <<1, 2, 3, 4, 5, 100>> =>
                 /\ Len(outliers) = 1
                 /\ outliers[1].Index = 5
                 /\ outliers[1].Value = 100

\* DetectOutliers of 6, 3, 3, 3, 0: the first and the last element are
\* outliers; in the sorted copy they would be the last and the first
C23_Witness ==
    /\ Called("DetectOutliers")
    /\ call.args[1] = <<6, 3, 3, 3, 0>>
    /\ Len(call.ret) = 2
    /\ call.ret[1].Index = 0 /\ call.ret[1].Value = 6
    /\ call.ret[2].Index = 4 /\ call.ret[2].Value = 0

\* q with the elements at k and k + 1 exchanged
Swap(q, k) ==
    [j \in 1..Len(q) |-> IF j = k THEN q[k + 1] ELSE IF j = k + 1 THEN q[k] ELSE q[j]]

\* Min, Max and Median of the Stats are those of q, and the four statistics
\* are the same for q with two neighbours exchanged (every permutation is a
\* sequence of such exchanges)
OrderStatistics(st, q) ==
    LET n == Len(q)
        r == Ascending(q)
    IN  /\ st.Min = r[1]
        /\ st.Max = r[n]
        /\ n % 2 = 1 => st.Median = r[(n + 1) \div 2]
        /\ \A k \in 1..(n - 1) :
             LET other == ComputeStats(Swap(q, k))
             IN  /\ other.Min = st.Min /\ other.Max = st.Max
                 /\ other.Median = st.Median /\ other.Mean = st.Mean

\* C24 as stated: for n >= 2 Min and Max are the smallest and the largest
\* element, Median is the middle element of the ascending sort for odd n and
\* the arithmetic mean of the two central elements for even n, Mean is the
\* arithmetic mean of the input, and all four are the same for every
\* permutation of the input.
C24_ExactMeanAndMedian ==
    (Called("ComputeStats") /\ Len(call.args[1]) >= 2) =>
        LET q == call.args[1]
            n == Len(q)
            r == Ascending(q)
        IN  /\ OrderStatistics(call.ret, q)
            /\ n % 2 = 0 => 2 * call.ret.Median = r[n \div 2] + r[n \div 2 + 1]
            /\ n * call.ret.Mean = sumOf(q)

\* C24: the same, with Mean the sum of the input divided by n and truncated
\* to a whole duration, and Median for even n the sum of the two central
\* elements divided by 2 and truncated to a whole duration.
C24_TruncatedMeanAndMedian ==
    (Called("ComputeStats") /\ Len(call.args[1]) >= 2) =>
        LET q == call.args[1]
            n == Len(q)
            r == Ascending(q)
        IN  /\ OrderStatistics(call.ret, q)
            /\ n % 2 = 0 =>
                 /\ 2 * call.ret.Median <= r[n \div 2] + r[n \div 2 + 1]
                 /\ r[n \div 2] + r[n \div 2 + 1] < 2 * (call.ret.Median + 1)
            /\ n * call.ret.Mean <= sumOf(q)
            /\ sumOf(q) < n * (call.ret.Mean + 1)

\* ComputeStats of 6, 0, 3, 1: not sorted, the two central elements are 1
\* and 3, the sum is 10
C24_Witness ==
    /\ Called("ComputeStats")
    /\ call.args[1] = <<6, 0, 3, 1>>
    /\ call.ret.Min = 0
    /\ call.ret.Max = 6
    /\ call.ret.Median = 2
    /\ call.ret.Mean = 2

\* C29: for non-negative durations DetectOutliers never flags every
\* element, so what ExcludeOutliers keeps of a non-empty sequence, given the
\* outliers of a sequence of that length, is not empty.
C29_SomeSampleIsKept ==
    /\ (Called("DetectOutliers") /\ call.args[1] # <<>>) =>
           Len(call.ret) < Len(call.args[1])
    /\ (Called("ExcludeOutliers") /\ call.args[1] # <<>>) =>
           call.ret # <<>>

\* ExcludeOutliers of 6, 3, 3, 3, 0 with its two outliers keeps the three
\* elements between them
C29_Witness ==
    /\ Called("ExcludeOutliers")
    /\ call.args[1] = <<6, 3, 3, 3, 0>>
    /\ Len(call.args[2]) = 2
    /\ call.ret = <<3, 3, 3>>

\* C30: for n >= 4 non-negative durations, whenever DetectOutliers reports
\* an outlier the integer mean that the deviation is divided by is strictly
\* positive.
C30_DeviationMeanPositive ==
    (Called("DetectOutliers") /\ Len(call.args[1]) >= 4) =>
        \A k \in 1..Len(call.ret) :
            /\ computeMean(call.args[1]) > 0
            /\ call.ret[k].Deviation.den > 0

\* DetectOutliers of 0, 0, 0, 0, 1 reports the 1 with a deviation whose
\* divisor is the integer mean 0
C30_ZeroMeanWitness ==
    /\ Called("DetectOutliers")
    /\ call.args[1] = <<0, 0, 0, 0, 1>>
    /\ Len(call.ret) = 1
    /\ call.ret[1].Value = 1
    /\ call.ret[1].Deviation = [num |-> 100, den |-> 0]

\* ------------------------------------------------------------------------
\* The handshake of the multiplexed transport, and TTFB against Total
\* ------------------------------------------------------------------------

\* C26: in the HTTP/3 trace the handshake-equivalent duration is
\* connection-ready minus resolution-done when name resolution completed,
\* connection-ready minus fetch-start when no resolution occurred, and zero
\* when connection-ready was never observed; the connect and the
\* stream-handshake phase of that trace are always zero.
C26_QUICHandshakeSpan ==
    (TraceReturned /\ call.fn = "FetchWithTraceHTTP3") =>
        LET st == call.state
            tr == call.trace
        IN  /\ (st.gotConn # 0 /\ st.dnsDone # 0) =>
                   tr.QUICHandshake = st.gotConn - st.dnsDone
            /\ (st.gotConn # 0 /\ st.dnsStart = 0 /\ st.dnsDone = 0) =>
                   tr.QUICHandshake = st.gotConn - st.start
            /\ st.gotConn = 0 => tr.QUICHandshake = 0
            /\ tr.TCPConnect = 0
            /\ tr.TLSHandshake = 0

\* an HTTP/3 fetch that started at 1, resolved the name by 2 and had its
\* connection at 3
C26_Witness ==
    /\ TraceReturned
    /\ call.fn = "FetchWithTraceHTTP3"
    /\ call.state.start = 1
    /\ call.state.dnsDone = 2
    /\ call.state.gotConn = 3
    /\ call.trace.QUICHandshake = 1

\* C28: in every Trace a successful fetch returns, TTFB <= Total whenever
\* the first byte was observed.
C28_TTFBWithinTotal ==
    (TraceReturned /\ call.state.firstByte # 0) =>
        /\ call.trace.TTFB = call.state.firstByte - call.state.start
        /\ call.trace.TTFB <= call.trace.Total

\* a fetch whose connection was made after the start, whose first byte came
\* later still and which returned after that
C28_Witness ==
    /\ TraceReturned
    /\ call.fn = "FetchWithTrace"
    /\ call.state.start = 1
    /\ call.state.connectDone = 2
    /\ call.state.firstByte = 2
    /\ call.trace.TTFB = 1
    /\ call.trace.Total = 2

\* ------------------------------------------------------------------------
\* The deadline of a pass
\* ------------------------------------------------------------------------

\* C27: each pass sets one deadline at its start, which bounds all of its
\* fetches and the detection: no stage returns without an error at or after
\* the deadline.  If the deadline is reached while the detector runs, the
\* detector is cancelled, the pass fails and no Sample is produced.
C27_DeadlineBoundsPass ==
    InPassCall =>
        /\ call.ctx = WithTimeout(0, call.timeout)
        /\ \A k \in 1..Len(call.log) :
             call.log[k].err = "" => call.log[k].end < call.ctx.deadline
        /\ call.sampled => call.clock < call.ctx.deadline
        /\ (call.reached = "DetectFirstFrame" /\ call.at \notin PassStages) =>
              /\ call.at = "failed"
              /\ call.err = "ffprobe failed"
              /\ ~call.sampled

\* a pass with a master playlist whose three fetches returned in time and
\* whose detector was still running at the deadline
C27_Witness ==
    /\ InPassCall
    /\ call.timeout = 3
    /\ Len(call.log) = 4
    /\ call.log[3].err = ""
    /\ call.log[3].end = 2
    /\ call.reached = "DetectFirstFrame"
    /\ call.at = "failed"
    /\ ~call.sampled

====
